---- MODULE Spec2Model ----
(***************************************************************************)
(* SumzleSolver (src/wasm/src/lib.rs): the constraint compiler             *)
(* (preprocess_constraints), the backtracking search (recursive_search,    *)
(* can_place_char, get_optimized_char_order) and the expression evaluator  *)
(* (evaluate_expression, evaluate_simple_expression, is_valid_equation).   *)
(*                                                                         *)
(* A string is a sequence of one-character strings.  The recursion of      *)
(* recursive_search is an explicit stack of call frames; one action is one *)
(* step of one frame.                                                      *)
(***************************************************************************)
EXTENDS Integers, Sequences, FiniteSets, TLC

(***************************************************************************)
(* Alphabet and symbol classes                                             *)
(***************************************************************************)

\* valid_chars, in the order of the source string.
valid_chars ==
    << "0", "1", "2", "3", "4", "5", "6", "7", "8", "9", "+", "-", "*", "/",
       "%", "^", "=", "(", ")", "!", "[", "]", ">", "A" >>

Range(s) == { s[i] : i \in 1..Len(s) }

Alphabet == Range(valid_chars)

\* The sentinel '\0' of an unfilled candidate position.
NUL == "NUL"

DigitChars == << "0", "1", "2", "3", "4", "5", "6", "7", "8", "9" >>

is_digit(c) == c \in Range(DigitChars)

is_binary_operator(c) == c \in { "+", "-", "*", "/", "%", "^", "A" }

is_unary_post_operator(c) == c = "!"

is_operator(c) == is_binary_operator(c) \/ is_unary_post_operator(c)

is_open_bracket(c) == c \in { "(", "[" }

is_close_bracket(c) == c \in { ")", "]" }

is_main_operator(c) == c \in { "=", ">" }

\* get_matching_bracket: "none" stands for Option::None.
get_matching_bracket(c) ==
    IF c = "(" THEN ")" ELSE IF c = "[" THEN "]" ELSE "none"

(***************************************************************************)
(* Strings and 32-bit integers                                             *)
(***************************************************************************)

I32Max == 2147483647

\* Body applied to value: the value is computed once, whatever the number of
\* places Body uses it in.
Let(value, Body(_)) == Body(value)

None == [some |-> FALSE, v |-> 0]

Some(x) == [some |-> TRUE, v |-> x]

DigitVal(c) == (CHOOSE i \in 1..10 : DigitChars[i] = c) - 1

AllDigits(s) == \A i \in 1..Len(s) : is_digit(s[i])

Contains(s, c) == \E i \in 1..Len(s) : s[i] = c

\* str::find(char): the first position (1-based) of c, 0 when absent.
Find(s, c) ==
    IF Contains(s, c)
    THEN CHOOSE i \in 1..Len(s) : s[i] = c /\ \A j \in 1..(i - 1) : s[j] # c
    ELSE 0

\* The characters s[a..b] (1-based, inclusive); empty when a > b.
Slice(s, a, b) == IF a > b THEN << >> ELSE SubSeq(s, a, b)

RECURSIVE ParseDigitsFrom(_, _, _)
ParseDigitsFrom(s, i, acc) ==
    IF i > Len(s) THEN Some(acc)
    ELSE LET d == DigitVal(s[i]) IN
         IF acc > (I32Max - d) \div 10 THEN None
         ELSE ParseDigitsFrom(s, i + 1, acc * 10 + d)

\* str::parse::<i32>().ok().  At every call site of the source the argument
\* either consists of digits only or ends in a non-digit, so a sign prefix is
\* never accepted; the empty string and values above i32::MAX fail.
ParseI32(s) ==
    IF Len(s) = 0 \/ ~AllDigits(s) THEN None ELSE ParseDigitsFrom(s, 1, 0)

RECURSIVE NatToStr(_)
NatToStr(n) ==
    IF n < 10 THEN << DigitChars[n + 1] >>
    ELSE NatToStr(n \div 10) \o << DigitChars[(n % 10) + 1] >>

\* i32::to_string.
IntToStr(n) == IF n < 0 THEN << "-" >> \o NatToStr(0 - n) ELSE NatToStr(n)

\* s with s[a..b] replaced by r: what replacen(pattern, r, 1) does when the
\* first occurrence of the pattern is s[a..b].
Splice(s, a, b, r) == Slice(s, 1, a - 1) \o r \o Slice(s, b + 1, Len(s))

(***************************************************************************)
(* Arithmetic of the meval crate (eval_str), over exact rationals.         *)
(* A value is a rational n/d in lowest terms with |n|, d <= i32::MAX       *)
(* ("rat"); 2^31 or -2^31 ("edge", n its sign: -2^31 is i32::MIN, the one  *)
(* integer of the i32 range beyond the rationals above); a finite value of *)
(* magnitude above 2^31 or an infinity ("big", n its sign); NaN ("nan");   *)
(* or a value outside what this model tracks ("unmodelled": an operation   *)
(* on edge, big or NaN operands, a rational whose terms leave the 32-bit   *)
(* range, a non-integral exponent).                                        *)
(***************************************************************************)

Rat(n, d) == [k |-> "rat", n |-> n, d |-> d]

Edge(sign) == [k |-> "edge", n |-> sign, d |-> 1]

Big(sign) == [k |-> "big", n |-> sign, d |-> 1]

NaN == [k |-> "nan", n |-> 0, d |-> 1]

Unmodelled == [k |-> "unmodelled", n |-> 0, d |-> 1]

Abs(x) == IF x < 0 THEN 0 - x ELSE x

Sign(x) == IF x < 0 THEN 0 - 1 ELSE IF x > 0 THEN 1 ELSE 0

RECURSIVE GCD(_, _)
GCD(a, b) == IF b = 0 THEN a ELSE GCD(b, a % b)

\* Products and sums that stay within 32 bits, None otherwise.
SafeMul(a, b) ==
    IF a = 0 \/ b = 0 THEN Some(0)
    ELSE IF Abs(a) > I32Max \div Abs(b) THEN None
    ELSE Some(a * b)

SafeAdd(a, b) ==
    IF a > 0 /\ b > 0 /\ a > I32Max - b THEN None
    ELSE IF a < 0 /\ b < 0 /\ Abs(a) > I32Max - Abs(b) THEN None
    ELSE Some(a + b)

Normal(n, d) ==
    IF n = 0 THEN Rat(0, 1)
    ELSE Let(GCD(Abs(n), d), LAMBDA g : Rat(n \div g, d \div g))

IsInt(x) == x.k = "rat" /\ x.d = 1

Neg(x) ==
    IF x.k = "rat" THEN Rat(0 - x.n, x.d)
    ELSE IF x.k = "edge" THEN Edge(0 - x.n)
    ELSE IF x.k = "big" THEN Big(0 - x.n)
    ELSE x

\* The quotient n/d of two checked results, or what an f64 holds when the
\* exact quotient is out of the range tracked: an infinity of the given
\* sign when both operands are integers.
Quotient(n, d, integers, sign) ==
    IF n.some /\ d.some THEN Normal(n.v, d.v)
    ELSE IF integers THEN Big(sign)
    ELSE Unmodelled

CheckedSum(a, b) == IF a.some /\ b.some THEN SafeAdd(a.v, b.v) ELSE None

\* |a + b| = 2^31 and |a * b| = 2^31 for integers a and b of the range
\* tracked, told without leaving 32 bits.
SumAtEdge(a, b) == Sign(a) = Sign(b) /\ a # 0 /\ Abs(a) - 1 = I32Max - Abs(b)

ProductAtEdge(a, b) ==
    /\ Abs(a) >= 2
    /\ I32Max % Abs(a) = Abs(a) - 1
    /\ Abs(b) = (I32Max \div Abs(a)) + 1

\* sign * 2^31 + b for an integer b of the range tracked.
EdgePlus(sign, b) ==
    IF b = 0 THEN Edge(sign)
    ELSE IF Sign(b) = sign THEN Big(sign)
    ELSE Rat(sign * ((I32Max - Abs(b)) + 1), 1)

Add(x, y) ==
    IF x.k = "edge" /\ IsInt(y) THEN EdgePlus(x.n, y.n)
    ELSE IF y.k = "edge" /\ IsInt(x) THEN EdgePlus(y.n, x.n)
    ELSE IF x.k # "rat" \/ y.k # "rat" THEN Unmodelled
    ELSE IF IsInt(x) /\ IsInt(y) /\ SumAtEdge(x.n, y.n) THEN Edge(Sign(x.n))
    ELSE Quotient(CheckedSum(SafeMul(x.n, y.d), SafeMul(y.n, x.d)), SafeMul(x.d, y.d),
                  IsInt(x) /\ IsInt(y), Sign(x.n))

Sub(x, y) == Add(x, Neg(y))

Mul(x, y) ==
    IF x.k # "rat" \/ y.k # "rat" THEN Unmodelled
    ELSE IF IsInt(x) /\ IsInt(y) /\ ProductAtEdge(x.n, y.n)
         THEN Edge(Sign(x.n) * Sign(y.n))
    ELSE Quotient(SafeMul(x.n, y.n), SafeMul(x.d, y.d),
                  IsInt(x) /\ IsInt(y), Sign(x.n) * Sign(y.n))

\* IEEE division: x/0 is an infinity, 0/0 is NaN.
Div(x, y) ==
    IF x.k # "rat" \/ y.k # "rat" THEN Unmodelled
    ELSE IF y.n = 0 THEN (IF x.n = 0 THEN NaN ELSE Big(Sign(x.n)))
    ELSE Mul(x, Rat(Sign(y.n) * y.d, Abs(y.n)))

\* f64 %: the remainder has the sign of the dividend; x % 0 is NaN.
Rem(x, y) ==
    IF x.k # "rat" \/ y.k # "rat" THEN Unmodelled
    ELSE IF y.n = 0 THEN NaN
    ELSE IF IsInt(x) /\ IsInt(y) THEN Rat(Sign(x.n) * (Abs(x.n) % Abs(y.n)), 1)
    ELSE Let(Div(x, y), LAMBDA q :
             IF q.k # "rat" THEN Unmodelled
             ELSE Sub(x, Mul(y, Rat(Sign(q.n) * (Abs(q.n) \div q.d), 1))))

\* x^e for a natural e, by e multiplications; the loop is cut as soon as the
\* value leaves the range the model tracks.
RECURSIVE PowAcc(_, _, _, _)
PowAcc(x, e, todo, acc) ==
    IF todo = 0 THEN acc
    ELSE Let(Mul(acc, x), LAMBDA r :
             IF r.k = "edge" /\ todo = 1 THEN r
             ELSE IF r.k \in { "edge", "big" }
                  THEN Big(IF x.n < 0 /\ e % 2 = 1 THEN 0 - 1 ELSE 1)
             ELSE IF r.k # "rat" THEN Unmodelled
             ELSE PowAcc(x, e, todo - 1, r))

PowNat(x, e) ==
    IF e = 0 THEN Rat(1, 1)
    ELSE IF x.n = 0 \/ (x.n = 1 /\ x.d = 1) THEN x
    ELSE IF x.n = 0 - 1 /\ x.d = 1 THEN Rat(IF e % 2 = 0 THEN 1 ELSE 0 - 1, 1)
    ELSE PowAcc(x, e, e, Rat(1, 1))

\* f64::powf; a zero exponent gives 1 whatever the base.
Pow(x, y) ==
    IF y.k = "rat" /\ y.n = 0 THEN Rat(1, 1)
    ELSE IF x.k # "rat" \/ y.k # "rat" THEN Unmodelled
    ELSE IF y.d # 1 THEN (IF x.n = 1 /\ x.d = 1 THEN x ELSE Unmodelled)
    ELSE IF y.n > 0 THEN PowNat(x, y.n)
    ELSE Let(PowNat(x, 0 - y.n), LAMBDA p :
             IF p.k = "rat" THEN Div(Rat(1, 1), p) ELSE Unmodelled)

\* The digits of 2^31.
WideNumeral == << "2", "1", "4", "7", "4", "8", "3", "6", "4", "8" >>

\* s without its leading zeros.
RECURSIVE StripZeros(_)
StripZeros(s) == IF Len(s) > 1 /\ s[1] = "0" THEN StripZeros(Tail(s)) ELSE s

\* A number token: a run of digits read as f64.
NumberValue(s) ==
    Let(ParseI32(s), LAMBDA p :
        IF p.some THEN Rat(p.v, 1)
        ELSE IF StripZeros(s) = WideNumeral THEN Edge(1)
        ELSE Big(1))

\* The end (exclusive) of the digit run that starts at i.
RECURSIVE DigitRunEnd(_, _)
DigitRunEnd(s, i) ==
    IF i <= Len(s) /\ is_digit(s[i]) THEN DigitRunEnd(s, i + 1) ELSE i

Fail == [ok |-> FALSE, v |-> NaN, i |-> 0]

Parsed(v, i) == [ok |-> TRUE, v |-> v, i |-> i]

\* The value of left op right for a binary operator of meval.
Binary(op, left, right) ==
    IF op = "+" THEN Add(left, right)
    ELSE IF op = "-" THEN Sub(left, right)
    ELSE IF op = "*" THEN Mul(left, right)
    ELSE IF op = "/" THEN Div(left, right)
    ELSE IF op = "%" THEN Rem(left, right)
    ELSE Pow(left, right)

\* meval's precedences: + - (1, left), * / % (2, left), unary + - (3),
\* ^ (4, right).  Each operator parses from position i and returns the value
\* and the position after it.
RECURSIVE ParseSum(_, _)
RECURSIVE ParseSumTail(_, _)
RECURSIVE ParseTerm(_, _)
RECURSIVE ParseTermTail(_, _)
RECURSIVE ParseUnary(_, _)
RECURSIVE ParsePower(_, _)
RECURSIVE ParseAtom(_, _)

ParseAtom(s, i) ==
    IF i > Len(s) THEN Fail
    ELSE IF is_digit(s[i]) THEN
        Let(DigitRunEnd(s, i), LAMBDA e : Parsed(NumberValue(Slice(s, i, e - 1)), e))
    ELSE IF s[i] = "(" THEN
        Let(ParseSum(s, i + 1), LAMBDA r :
            IF r.ok /\ r.i <= Len(s) /\ s[r.i] = ")" THEN Parsed(r.v, r.i + 1) ELSE Fail)
    ELSE Fail

ParsePower(s, i) ==
    Let(ParseAtom(s, i), LAMBDA a :
        IF a.ok /\ a.i <= Len(s) /\ s[a.i] = "^" THEN
            Let(ParseUnary(s, a.i + 1), LAMBDA r :
                IF r.ok THEN Parsed(Binary("^", a.v, r.v), r.i) ELSE Fail)
        ELSE a)

ParseUnary(s, i) ==
    IF i <= Len(s) /\ s[i] \in { "+", "-" } THEN
        Let(ParseUnary(s, i + 1), LAMBDA r :
            IF r.ok THEN Parsed(IF s[i] = "-" THEN Neg(r.v) ELSE r.v, r.i) ELSE Fail)
    ELSE ParsePower(s, i)

ParseTermTail(s, acc) ==
    IF acc.ok /\ acc.i <= Len(s) /\ s[acc.i] \in { "*", "/", "%" } THEN
        Let(ParseUnary(s, acc.i + 1), LAMBDA r :
            IF r.ok THEN ParseTermTail(s, Parsed(Binary(s[acc.i], acc.v, r.v), r.i))
            ELSE Fail)
    ELSE acc

ParseTerm(s, i) == ParseTermTail(s, ParseUnary(s, i))

ParseSumTail(s, acc) ==
    IF acc.ok /\ acc.i <= Len(s) /\ s[acc.i] \in { "+", "-" } THEN
        Let(ParseTerm(s, acc.i + 1), LAMBDA r :
            IF r.ok THEN ParseSumTail(s, Parsed(Binary(s[acc.i], acc.v, r.v), r.i))
            ELSE Fail)
    ELSE acc

ParseSum(s, i) == ParseSumTail(s, ParseTerm(s, i))

\* A faulty eval_str: the value of the longest expression the string starts
\* with, whatever follows it.
eval_str_prefix(s) ==
    Let(ParseSum(s, 1), LAMBDA r :
        IF r.ok THEN [ok |-> TRUE, v |-> r.v] ELSE [ok |-> FALSE, v |-> NaN])

\* meval::eval_str: Ok(value) only when the whole string is one expression.
eval_str(s) ==
    Let(ParseSum(s, 1), LAMBDA r :
        IF r.ok /\ r.i = Len(s) + 1 THEN [ok |-> TRUE, v |-> r.v]
        ELSE [ok |-> FALSE, v |-> NaN])

(***************************************************************************)
(* Expression evaluator                                                    *)
(***************************************************************************)

max_bracket_iterations == 10

MaxFactorialOperand == 12

MaxPermutationOperand == 10

\* The scan for the bracket matching the "[" before position e: the position
\* of the matching "]", or 0 when the string ends first.
RECURSIVE MatchingClose(_, _, _)
MatchingClose(p, e, depth) ==
    IF e > Len(p) THEN 0
    ELSE LET d == IF p[e] = "[" THEN depth + 1
                  ELSE IF p[e] = "]" THEN depth - 1
                  ELSE depth
         IN IF d > 0 THEN MatchingClose(p, e + 1, d) ELSE e

CountChar(s, c) == Cardinality({ i \in 1..Len(s) : s[i] = c })

\* A faulty quotient: the nearest integer (round) in place of floor.
FloorQuotientRounded(num, denom) ==
    IF ~num.some \/ ~denom.some THEN None
    ELSE IF denom.v = 0 THEN None
    ELSE Some((num.v \div denom.v)
                  + (IF num.v % denom.v >= denom.v - (num.v % denom.v) THEN 1 ELSE 0))

\* num / denom of a floor span "num/denom" (lines 121-133).
FloorQuotient(num, denom) ==
    IF ~num.some \/ ~denom.some THEN None
    ELSE IF denom.v = 0 THEN None
    ELSE Some(num.v \div denom.v)

\* The two sides of the first "/" of a string, at position slash.
NumStr(inner, slash) == Slice(inner, 1, slash - 1)

DenomStr(inner, slash) == Slice(inner, slash + 1, Len(inner))

\* The value of the content of one floor span (lines 110-137).
FloorValue(inner) ==
    IF AllDigits(inner) THEN ParseI32(inner)
    ELSE Let(Find(inner, "/"), LAMBDA slash :
             IF /\ CountChar(inner, "/") = 1
                /\ AllDigits(NumStr(inner, slash))
                /\ AllDigits(DenomStr(inner, slash))
             THEN FloorQuotient(ParseI32(NumStr(inner, slash)),
                                ParseI32(DenomStr(inner, slash)))
             ELSE None)

\* A faulty floor-bracket loop: the passes are not counted.
RECURSIVE ReduceFloorsUncounted(_, _)
ReduceFloorsUncounted(p, bracket_iterations) ==
    IF Contains(p, "[") THEN
        Let(Find(p, "["), LAMBDA start :
            Let(MatchingClose(p, start + 1, 1), LAMBDA end :
                IF end = 0 THEN None
                ELSE Let(FloorValue(Slice(p, start + 1, end - 1)), LAMBDA inner_value :
                         IF ~inner_value.some THEN None
                         ELSE ReduceFloorsUncounted(
                                  Splice(p, start, end, IntToStr(inner_value.v)),
                                  bracket_iterations))))
    ELSE Some(p)

\* The floor-bracket loop (lines 84-155): the reduced string, or None.
RECURSIVE ReduceFloors(_, _)
ReduceFloors(p, bracket_iterations) ==
    IF Contains(p, "[") /\ bracket_iterations < max_bracket_iterations THEN
        Let(Find(p, "["), LAMBDA start :
            Let(MatchingClose(p, start + 1, 1), LAMBDA end :
                IF end = 0 THEN None
                ELSE Let(FloorValue(Slice(p, start + 1, end - 1)), LAMBDA inner_value :
                         IF ~inner_value.some THEN None
                         ELSE ReduceFloors(Splice(p, start, end, IntToStr(inner_value.v)),
                                           bracket_iterations + 1))))
    ELSE IF bracket_iterations >= max_bracket_iterations /\ Contains(p, "[") THEN None
    ELSE Some(p)

\* The start of the text taken as the operand that ends at position last
\* (lines 164-167): the character at last, and the digits before it.
RECURSIVE OperandStart(_, _)
OperandStart(p, start) ==
    IF start > 1 /\ is_digit(p[start - 1]) THEN OperandStart(p, start - 1) ELSE start

\* A faulty factorial: the loop runs over 2..n without n.
RECURSIVE FactorialExclusive(_)
FactorialExclusive(n) == IF n < 3 THEN 1 ELSE (n - 1) * FactorialExclusive(n - 1)

RECURSIVE Factorial(_)
Factorial(n) == IF n < 2 THEN 1 ELSE n * Factorial(n - 1)

\* The factorial loop (lines 157-184).
RECURSIVE ReduceFactorials(_)
ReduceFactorials(p) ==
    Let(Find(p, "!"), LAMBDA pos :
        IF pos = 0 THEN Some(p)
        ELSE IF pos = 1 THEN None
        ELSE Let(OperandStart(p, pos - 1), LAMBDA start :
                 Let(ParseI32(Slice(p, start, pos - 1)), LAMBDA n :
                     IF ~n.some THEN None
                     ELSE IF n.v < 0 \/ n.v > MaxFactorialOperand THEN None
                     ELSE ReduceFactorials(
                              Splice(p, start, pos, IntToStr(Factorial(n.v)))))))

RECURSIVE FallingProduct(_, _)
FallingProduct(m, n) == IF n = 0 THEN 1 ELSE m * FallingProduct(m - 1, n - 1)

\* A faulty permutation: the test n > m of line 208 is missing.
PermutationTextUnordered(m, n) ==
    IF ~m.some \/ ~n.some THEN None
    ELSE IF \/ m.v < 0 \/ n.v < 0
            \/ m.v > MaxPermutationOperand \/ n.v > MaxPermutationOperand THEN None
    ELSE Some(IntToStr(FallingProduct(m.v, n.v)))

\* m A n (lines 203-214): the text of the result, or None.
PermutationText(m, n) ==
    IF ~m.some \/ ~n.some THEN None
    ELSE IF \/ m.v < 0 \/ n.v < 0
            \/ m.v > MaxPermutationOperand \/ n.v > MaxPermutationOperand
            \/ n.v > m.v THEN None
    ELSE Some(IntToStr(FallingProduct(m.v, n.v)))

\* The permutation loop (lines 186-221).
RECURSIVE ReducePermutations(_)
ReducePermutations(p) ==
    Let(Find(p, "A"), LAMBDA pos :
        IF pos = 0 THEN Some(p)
        ELSE IF pos = 1 \/ pos = Len(p) THEN None
        ELSE Let(OperandStart(p, pos - 1), LAMBDA m_start :
                 Let(DigitRunEnd(p, pos + 1), LAMBDA n_end :
                     Let(PermutationText(ParseI32(Slice(p, m_start, pos - 1)),
                                         ParseI32(Slice(p, pos + 1, n_end - 1))),
                         LAMBDA text :
                             IF ~text.some THEN None
                             ELSE ReducePermutations(
                                      Splice(p, m_start, n_end - 1, text.v))))))

\* A faulty leading-zero check: the case i == 0 of line 240 is missing, so a
\* run at the very start of the string is not looked at.
HasLeadingZeroAfterSymbol(expr) ==
    /\ Contains(expr, "0")
    /\ Cardinality({ i \in 1..Len(expr) : is_digit(expr[i]) }) > 1
    /\ \E i \in 2..(Len(expr) - 1) :
          /\ expr[i] = "0"
          /\ is_digit(expr[i + 1])
          /\ ~is_digit(expr[i - 1])

\* Lines 236-244: a "0" that starts a digit run and is followed by a digit.
HasLeadingZero(expr) ==
    /\ Contains(expr, "0")
    /\ Cardinality({ i \in 1..Len(expr) : is_digit(expr[i]) }) > 1
    /\ \E i \in 1..(Len(expr) - 1) :
          /\ expr[i] = "0"
          /\ is_digit(expr[i + 1])
          /\ (i = 1 \/ ~is_digit(expr[i - 1]))

ContainsNaN(expr) ==
    \E i \in 1..(Len(expr) - 2) : expr[i] = "N" /\ expr[i + 1] = "a" /\ expr[i + 2] = "N"

\* The raw value eval_str gives the reduced string (NaN when it gives none).
SimpleValue(expr) == Let(eval_str(expr), LAMBDA r : IF r.ok THEN r.v ELSE NaN)

\* A faulty conversion: the test result.fract() == 0.0 is missing and the
\* cast to i32 cuts the fraction off.
IntegralValueTruncated(r) ==
    IF r.ok /\ r.v.k = "rat"
    THEN Some(Sign(r.v.n) * (Abs(r.v.n) \div r.v.d))
    ELSE None

\* Lines 247-262: an integral value within i32, or None.
IntegralValue(r) ==
    IF r.ok /\ IsInt(r.v) THEN Some(r.v.n)
    ELSE IF r.ok /\ r.v = Edge(0 - 1) THEN Some((0 - I32Max) - 1)
    ELSE None

evaluate_simple_expression(expr) ==
    IF ContainsNaN(expr) THEN None
    ELSE IF HasLeadingZero(expr) THEN None
    ELSE IntegralValue(eval_str(expr))

\* The string handed to evaluate_simple_expression, or None.
ReducedExpression(expr) ==
    IF Len(expr) = 0 THEN None
    ELSE Let(ReduceFloors(expr, 0), LAMBDA a :
             IF ~a.some THEN None
             ELSE Let(ReduceFactorials(a.v), LAMBDA b :
                      IF ~b.some THEN None ELSE ReducePermutations(b.v)))

evaluate_expression(expr) ==
    Let(ReducedExpression(expr), LAMBDA r :
        IF r.some THEN evaluate_simple_expression(r.v) ELSE None)

RECURSIVE BracketScan(_, _, _)
BracketScan(e, i, stack) ==
    IF i > Len(e) THEN stack = << >>
    ELSE IF e[i] = "(" THEN BracketScan(e, i + 1, stack \o << ")" >>)
    ELSE IF e[i] = "[" THEN BracketScan(e, i + 1, stack \o << "]" >>)
    ELSE IF e[i] \in { ")", "]" } THEN
        IF stack # << >> /\ stack[Len(stack)] = e[i]
        THEN BracketScan(e, i + 1, SubSeq(stack, 1, Len(stack) - 1))
        ELSE FALSE
    ELSE BracketScan(e, i + 1, stack)

check_brackets(expression) == BracketScan(expression, 1, << >>)

\* The scan for the main operator (lines 275-295): [conflict, main_op,
\* main_op_index], main_op "none" for Option::None, the index 0-based.
RECURSIVE MainOpScan(_, _, _, _, _)
MainOpScan(e, i, depth, main_op, main_op_index) ==
    IF i > Len(e) THEN [conflict |-> FALSE, main_op |-> main_op, main_op_index |-> main_op_index]
    ELSE IF e[i] \in { "(", "[" } THEN MainOpScan(e, i + 1, depth + 1, main_op, main_op_index)
    ELSE IF e[i] \in { ")", "]" } THEN MainOpScan(e, i + 1, depth - 1, main_op, main_op_index)
    ELSE IF depth = 0 /\ e[i] \in { "=", ">" } THEN
        IF main_op = "none" THEN MainOpScan(e, i + 1, depth, e[i], i - 1)
        ELSE IF main_op = ">" /\ e[i] = "=" THEN MainOpScan(e, i + 1, depth, ">", main_op_index)
        ELSE IF main_op # e[i]
             THEN [conflict |-> TRUE, main_op |-> main_op, main_op_index |-> main_op_index]
        ELSE MainOpScan(e, i + 1, depth, main_op, main_op_index)
    ELSE MainOpScan(e, i + 1, depth, main_op, main_op_index)

\* A faulty comparison: ">" holds for equal sides too.
CompareOrEqual(main_op, left_value, right_value) ==
    IF ~left_value.some \/ ~right_value.some THEN FALSE
    ELSE IF main_op = "=" THEN left_value.v = right_value.v
    ELSE IF main_op = ">" THEN left_value.v >= right_value.v
    ELSE FALSE

\* Lines 313-325: the comparison of the values of the two sides.
Compare(main_op, left_value, right_value) ==
    IF ~left_value.some \/ ~right_value.some THEN FALSE
    ELSE IF main_op = "=" THEN left_value.v = right_value.v
    ELSE IF main_op = ">" THEN left_value.v > right_value.v
    ELSE FALSE

\* Lines 297-325, after the scan m for the main operator.
SidesCompare(expression, m) ==
    IF m.conflict THEN FALSE
    ELSE IF m.main_op = "none" \/ m.main_op_index = 0
            \/ m.main_op_index = Len(expression) - 1 THEN FALSE
    ELSE Compare(m.main_op,
                 evaluate_expression(Slice(expression, 1, m.main_op_index)),
                 evaluate_expression(Slice(expression, m.main_op_index + 2,
                                           Len(expression))))

is_valid_equation(expression) ==
    IF ~check_brackets(expression) THEN FALSE
    ELSE SidesCompare(expression, MainOpScan(expression, 1, 0, "none", 0))

is_valid_solution(expression) == is_valid_equation(expression)

(***************************************************************************)
(* Constraint compiler (preprocess_constraints).                           *)
(* A row is a sequence of tiles [char, state]; char "" is a tile that      *)
(* carries no symbol.  Maps are functions whose domain is the key set.     *)
(***************************************************************************)

Get(map, key, default) == IF key \in DOMAIN map THEN map[key] ELSE default

Put(map, key, value) ==
    [k \in (DOMAIN map) \cup { key } |-> IF k = key THEN value ELSE map[k]]

EmptyMap == [k \in {} |-> 0]

Max(a, b) == IF a >= b THEN a ELSE b

\* Lines 393-399.
InitialKnowledge(length) ==
    [ fixed_chars |-> [i \in 1..length |-> "none"],
      cannot_be_at |-> [i \in 1..length |-> {}],
      must_appear_min_count |-> EmptyMap,
      must_appear_exact_count |-> EmptyMap,
      globally_forbidden |-> {} ]

Compiled(gk) == [ok |-> TRUE, gk |-> gk, errors |-> {}]

Conflict(kind, char) ==
    [ok |-> FALSE, gk |-> InitialKnowledge(0), errors |-> { << kind, char >> }]

\* A faulty ApplyTile: a "correct" tile is handled as a "present" one.
ApplyTileCorrectAsPresent(gk, length, c, tile) ==
    IF c >= length \/ tile.char = "" THEN Compiled(gk)
    ELSE IF tile.state \in { "correct", "present", "empty" } THEN
        Compiled([gk EXCEPT !.cannot_be_at[c + 1] = @ \cup { tile.char }])
    ELSE Compiled(gk)

\* A faulty ApplyTile: the arm for "present" tiles is missing.
ApplyTileWithoutPresent(gk, length, c, tile) ==
    IF c >= length \/ tile.char = "" THEN Compiled(gk)
    ELSE IF tile.state = "correct" THEN
        IF gk.fixed_chars[c + 1] # "none" /\ gk.fixed_chars[c + 1] # tile.char
        THEN Conflict("fixed to both", tile.char)
        ELSE Compiled([gk EXCEPT
                 !.fixed_chars[c + 1] = tile.char,
                 !.cannot_be_at[c + 1] = @ \cup (Alphabet \ { tile.char })])
    ELSE IF tile.state = "empty" THEN
        Compiled([gk EXCEPT !.cannot_be_at[c + 1] = @ \cup { tile.char }])
    ELSE Compiled(gk)

\* One tile of the positional pass (lines 403-432); c is the 0-based column.
ApplyTile(gk, length, c, tile) ==
    IF c >= length \/ tile.char = "" THEN Compiled(gk)
    ELSE IF tile.state = "correct" THEN
        IF gk.fixed_chars[c + 1] # "none" /\ gk.fixed_chars[c + 1] # tile.char
        THEN Conflict("fixed to both", tile.char)
        ELSE Compiled([gk EXCEPT
                 !.fixed_chars[c + 1] = tile.char,
                 !.cannot_be_at[c + 1] = @ \cup (Alphabet \ { tile.char })])
    ELSE IF tile.state \in { "present", "empty" } THEN
        Compiled([gk EXCEPT !.cannot_be_at[c + 1] = @ \cup { tile.char }])
    ELSE Compiled(gk)

\* A faulty positional pass: the conflict a tile raises is dropped and the
\* pass goes on with the knowledge it had.
RECURSIVE PositionalPassDroppingConflicts(_, _, _, _, _)
PositionalPassDroppingConflicts(gk, length, rows, r, c) ==
    IF r > Len(rows) THEN Compiled(gk)
    ELSE IF c >= Len(rows[r]) THEN PositionalPassDroppingConflicts(gk, length, rows, r + 1, 0)
    ELSE Let(ApplyTile(gk, length, c, rows[r][c + 1]), LAMBDA step :
             IF step.ok
             THEN PositionalPassDroppingConflicts(step.gk, length, rows, r, c + 1)
             ELSE PositionalPassDroppingConflicts(gk, length, rows, r, c + 1))

\* The positional pass over the rows from row r, column c on (0-based c).
RECURSIVE PositionalPass(_, _, _, _, _)
PositionalPass(gk, length, rows, r, c) ==
    IF r > Len(rows) THEN Compiled(gk)
    ELSE IF c >= Len(rows[r]) THEN PositionalPass(gk, length, rows, r + 1, 0)
    ELSE Let(ApplyTile(gk, length, c, rows[r][c + 1]), LAMBDA step :
             IF ~step.ok THEN step
             ELSE PositionalPass(step.gk, length, rows, r, c + 1))

\* Lines 435-443.
all_chars_in_guesses(rows) ==
    UNION { { rows[r][c].char : c \in 1..Len(rows[r]) } : r \in 1..Len(rows) } \ { "" }

TilesOf(row, char, states) ==
    { c \in 1..Len(row) : row[c].char = char /\ row[c].state \in states }

\* green_in_row + yellow_in_row (lines 456-466).
min_required_this_row(row, char) == Cardinality(TilesOf(row, char, { "correct", "present" }))

\* A faulty row step: the minimum is the count of the latest row, not the
\* largest so far.
CountRowLatest(min_required_overall, derived_exact_count, this_row, has_empty) ==
    [ min |-> this_row,
      exact |-> IF has_empty /\ derived_exact_count = 0 - 1 THEN this_row
                ELSE derived_exact_count,
      conflict |-> /\ has_empty
                   /\ derived_exact_count # 0 - 1
                   /\ derived_exact_count # this_row ]

\* One row of the row loop for one symbol (lines 450-481), the row holding the
\* symbol: [min, exact, conflict], exact = -1 for Option::None.
CountRow(min_required_overall, derived_exact_count, this_row, has_empty) ==
    [ min |-> Max(min_required_overall, this_row),
      exact |-> IF has_empty /\ derived_exact_count = 0 - 1 THEN this_row
                ELSE derived_exact_count,
      conflict |-> /\ has_empty
                   /\ derived_exact_count # 0 - 1
                   /\ derived_exact_count # this_row ]

\* The row loop for one symbol (lines 447-481), from row r on.
RECURSIVE CountRows(_, _, _, _, _)
CountRows(rows, char, r, min_required_overall, derived_exact_count) ==
    IF r > Len(rows)
    THEN [min |-> min_required_overall, exact |-> derived_exact_count, conflict |-> FALSE]
    ELSE IF ~\E c \in 1..Len(rows[r]) : rows[r][c].char = char
    THEN CountRows(rows, char, r + 1, min_required_overall, derived_exact_count)
    ELSE Let(CountRow(min_required_overall, derived_exact_count,
                      min_required_this_row(rows[r], char),
                      TilesOf(rows[r], char, { "empty" }) # {}),
             LAMBDA n : IF n.conflict THEN n
                        ELSE CountRows(rows, char, r + 1, n.min, n.exact))

CharCounts(rows, char) == CountRows(rows, char, 1, 0, 0 - 1)

\* The conflict the count pass reports for a symbol with counts n, "none"
\* when it reports none (lines 473-476, 485-488).
CountConflict(n) ==
    IF n.conflict THEN "different exact counts"
    ELSE IF n.exact # 0 - 1 /\ n.exact < n.min THEN "exact below minimum"
    ELSE "none"

\* The outcome of the count pass for the counts n of every symbol.
CountOutcome(gk, n) ==
    IF \E ch \in DOMAIN n : CountConflict(n[ch]) # "none"
    THEN [ok |-> FALSE, gk |-> InitialKnowledge(0),
          errors |-> { << CountConflict(n[ch]), ch >> :
                         ch \in { x \in DOMAIN n : CountConflict(n[x]) # "none" } }]
    ELSE Compiled([gk EXCEPT
             !.must_appear_min_count = [ch \in DOMAIN n |-> n[ch].min],
             !.must_appear_exact_count =
                 [ch \in { x \in DOMAIN n : n[x].exact # 0 - 1 } |-> n[ch].exact],
             !.globally_forbidden =
                 { ch \in DOMAIN n : n[ch].exact = 0 /\ n[ch].min = 0 }])

\* The count pass (lines 445-494).  The symbols are visited in the iteration
\* order of a HashSet, so any symbol with a conflict may be the one reported.
CountPass(gk, rows) ==
    CountOutcome(gk, [ch \in all_chars_in_guesses(rows) |-> CharCounts(rows, ch)])

\* Lines 504-511: the pinned symbol appears at least once.
WithFixedMinimum(gk, fixed) ==
    [gk EXCEPT !.must_appear_min_count = Put(@, fixed, Max(Get(@, fixed, 0), 1))]

\* A faulty check of the pinned positions: the test of cannot_be_at is missing.
RECURSIVE FixedPassWithoutPositionTest(_, _, _)
FixedPassWithoutPositionTest(gk, length, i) ==
    IF i > length THEN Compiled(gk)
    ELSE IF gk.fixed_chars[i] = "none" THEN FixedPassWithoutPositionTest(gk, length, i + 1)
    ELSE IF gk.fixed_chars[i] \in gk.globally_forbidden
         THEN Conflict("fixed but globally forbidden", gk.fixed_chars[i])
    ELSE Let(WithFixedMinimum(gk, gk.fixed_chars[i]), LAMBDA g2 :
             IF /\ gk.fixed_chars[i] \in DOMAIN g2.must_appear_exact_count
                /\ g2.must_appear_exact_count[gk.fixed_chars[i]]
                       < g2.must_appear_min_count[gk.fixed_chars[i]]
             THEN Conflict("exact below fixed minimum", gk.fixed_chars[i])
             ELSE FixedPassWithoutPositionTest(g2, length, i + 1))

\* The check of the pinned positions, from position i on (lines 497-513).
RECURSIVE FixedPass(_, _, _)
FixedPass(gk, length, i) ==
    IF i > length THEN Compiled(gk)
    ELSE IF gk.fixed_chars[i] = "none" THEN FixedPass(gk, length, i + 1)
    ELSE IF gk.fixed_chars[i] \in gk.globally_forbidden
         THEN Conflict("fixed but globally forbidden", gk.fixed_chars[i])
    ELSE IF gk.fixed_chars[i] \in gk.cannot_be_at[i]
         THEN Conflict("fixed but cannot be at", gk.fixed_chars[i])
    ELSE Let(WithFixedMinimum(gk, gk.fixed_chars[i]), LAMBDA g2 :
             IF /\ gk.fixed_chars[i] \in DOMAIN g2.must_appear_exact_count
                /\ g2.must_appear_exact_count[gk.fixed_chars[i]]
                       < g2.must_appear_min_count[gk.fixed_chars[i]]
             THEN Conflict("exact below fixed minimum", gk.fixed_chars[i])
             ELSE FixedPass(g2, length, i + 1))

\* The symbols the first closing loop rejects (lines 515-522).
BelowMinimum(gk) ==
    { ch \in DOMAIN gk.must_appear_exact_count :
        gk.must_appear_exact_count[ch] < Get(gk.must_appear_min_count, ch, 0) }

\* The symbols the second closing loop rejects (lines 523-531).
ForbiddenButRequired(gk) ==
    { ch \in gk.globally_forbidden :
        \/ Get(gk.must_appear_min_count, ch, 0) > 0
        \/ Get(gk.must_appear_exact_count, ch, 0) > 0 }

\* The two closing loops over the maps (lines 515-531), in HashMap order.
FinalPass(gk) ==
    IF BelowMinimum(gk) # {}
    THEN [ok |-> FALSE, gk |-> InitialKnowledge(0),
          errors |-> { << "exact below minimum", ch >> : ch \in BelowMinimum(gk) }]
    ELSE IF ForbiddenButRequired(gk) # {}
    THEN [ok |-> FALSE, gk |-> InitialKnowledge(0),
          errors |-> { << "forbidden but required", ch >> : ch \in ForbiddenButRequired(gk) }]
    ELSE Compiled(gk)

\* A pass applied to the outcome of the passes before it.
Then(outcome, Pass(_)) == IF outcome.ok THEN Pass(outcome.gk) ELSE outcome

\* preprocess_constraints: [ok, gk, errors]; errors is the set of conflicts
\* the call may report (one of them is reported).
preprocess_constraints(length, rows) ==
    Then(Then(Then(PositionalPass(InitialKnowledge(length), length, rows, 1, 0),
                   LAMBDA a : CountPass(a, rows)),
              LAMBDA b : FixedPass(b, length, 1)),
         LAMBDA c : FinalPass(c))

(***************************************************************************)
(* The solver and one query                                                *)
(***************************************************************************)

VARIABLES
    length,                     \* SumzleSolver.length
    max_operand_value,          \* SumzleSolver.max_operand_value
    overflow_checks,            \* the build traps integer overflow (debug profile)
    rows,                       \* the feedback of the query (Constraints.rows)
    pc,                         \* "idle", "searching", "done" or "panicked"
    gk,                         \* the compiled GlobalKnowledge
    error,                      \* the conflict preprocess_constraints reported
    current_expression,         \* the candidate buffer
    current_expression_counts,  \* the running counts
    stack,                      \* the frames of recursive_search, innermost last
    results,                    \* the result sequence
    searched_count,             \* the diagnostic counter
    queries,                    \* number of queries this solver has answered
    previous_results,           \* what the previous query returned
    method,                     \* the utility called on a string, "none" before
    argument,                   \* the string handed to the utility
    returned_value,             \* what evaluate_expression returned
    returned_bool               \* what is_valid_solution returned

\* The call of a single-expression utility and what it returned.
utility == << method, argument, returned_value, returned_bool >>

vars ==
    << length, max_operand_value, overflow_checks, rows, pc, gk, error,
       current_expression, current_expression_counts, stack, results,
       searched_count, queries, previous_results, utility >>

\* index >= self.length - n on usize: in a build without overflow checks the
\* difference wraps to a value above every index when length < n.
AtOrPastLengthMinus(index, n) == length >= n /\ index >= length - n

\* The digit run that ends with char at position index (lines 618-623); k is
\* the 0-based position before the run, -1 when the run starts the string.
RECURSIVE RunStart(_, _)
RunStart(current, k) ==
    IF k >= 0 /\ is_digit(current[k + 1]) THEN RunStart(current, k - 1) ELSE k

\* Lines 730-759: [ok, open_paren_depth, open_square_depth].
RECURSIVE DepthScan(_, _, _, _, _)
DepthScan(temp, i, open_paren_depth, open_square_depth, open_brackets_stack) ==
    IF i > Len(temp)
    THEN [ok |-> TRUE, paren |-> open_paren_depth, square |-> open_square_depth]
    ELSE LET c == temp[i]
             top == IF open_brackets_stack = << >> THEN "none"
                    ELSE open_brackets_stack[Len(open_brackets_stack)]
             popped == IF open_brackets_stack = << >> THEN << >>
                       ELSE SubSeq(open_brackets_stack, 1, Len(open_brackets_stack) - 1)
         IN IF c = "(" THEN DepthScan(temp, i + 1, open_paren_depth + 1, open_square_depth,
                                      open_brackets_stack \o << c >>)
            ELSE IF c = "[" THEN DepthScan(temp, i + 1, open_paren_depth, open_square_depth + 1,
                                           open_brackets_stack \o << c >>)
            ELSE IF c = ")" THEN
                IF open_paren_depth - 1 < 0 \/ top # "("
                THEN [ok |-> FALSE, paren |-> 0, square |-> 0]
                ELSE DepthScan(temp, i + 1, open_paren_depth - 1, open_square_depth, popped)
            ELSE IF c = "]" THEN
                IF open_square_depth - 1 < 0 \/ top # "["
                THEN [ok |-> FALSE, paren |-> 0, square |-> 0]
                ELSE DepthScan(temp, i + 1, open_paren_depth, open_square_depth - 1, popped)
            ELSE DepthScan(temp, i + 1, open_paren_depth, open_square_depth,
                           open_brackets_stack)

\* Lines 545-564: the knowledge rejects char at index.
RejectedByKnowledge(char, index, counts, knowledge) ==
    \/ char \in knowledge.globally_forbidden
    \/ /\ knowledge.fixed_chars[index + 1] # "none"
       /\ knowledge.fixed_chars[index + 1] # char
    \/ char \in knowledge.cannot_be_at[index + 1]
    \/ /\ char \in DOMAIN knowledge.must_appear_exact_count
       /\ Get(counts, char, 0) >= knowledge.must_appear_exact_count[char]

\* Lines 566-611: the floor context rejects char at index.
RejectedByFloor(char, index, current, floor_context) ==
    LET prev_char == IF index > 0 THEN current[index] ELSE NUL IN
    \/ /\ floor_context.in_floor
       /\ \/ char = "["
          \/ is_operator(char) /\ char # "/"
          \/ is_main_operator(char)
          \/ char = "("
          \/ char = "A" \/ char = "!"
          \/ /\ char = "/"
             /\ \/ floor_context.has_slash_in_current_floor
                \/ ~is_digit(prev_char) \/ index = 0
          \/ /\ char = "]"
             /\ (~is_digit(prev_char) \/ ~floor_context.has_slash_in_current_floor)
          \/ char # "/" /\ char # "]" /\ ~is_digit(char)
    \/ char = "[" /\ floor_context.in_floor
    \/ char = "]" /\ ~floor_context.in_floor

\* Line 612 evaluates self.length - 3 when char is "[": with overflow checks
\* and length < 3 the subtraction panics.
PanicsOnBracketRoom(char) == overflow_checks /\ char = "[" /\ length < 3

\* Lines 616-638.
RejectedByNumber(char, index, current, main_op_so_far) ==
    /\ is_digit(char)
    /\ main_op_so_far # "="
    /\ LET k == RunStart(current, index - 1)
           temp_num_str == Slice(current, k + 2, index) \o << char >>
           before == IF k >= 0 THEN current[k + 1] ELSE "none"
           num == ParseI32(temp_num_str)
       IN \/ Len(temp_num_str) > 1 /\ temp_num_str[1] = "0"
          \/ /\ \/ before = "none"
                \/ is_operator(before) \/ is_open_bracket(before) \/ is_main_operator(before)
             /\ num.some
             /\ num.v > max_operand_value

\* Lines 640-707: the rules keyed on the previous symbol.
RejectedBySyntax(char, index, current, floor_context) ==
    \/ /\ index = 0
       /\ \/ is_binary_operator(char) \/ is_close_bracket(char)
          \/ is_main_operator(char) \/ is_unary_post_operator(char)
    \/ /\ index > 0
       /\ LET prev == current[index] IN
          IF is_digit(prev) THEN
              \/ is_open_bracket(char) /\ char # "["
              \/ char = "[" /\ floor_context.in_floor
          ELSE IF is_operator(prev) THEN
              \/ /\ is_binary_operator(char)
                 /\ ~(prev = "A" /\ (is_open_bracket(char) \/ is_digit(char)))
                 /\ ~is_unary_post_operator(prev)
              \/ is_close_bracket(char)
              \/ is_main_operator(char) /\ ~is_unary_post_operator(prev)
              \/ is_unary_post_operator(prev) /\ (is_digit(char) \/ is_open_bracket(char))
          ELSE IF is_open_bracket(prev) THEN
              \/ prev = "[" /\ char = "("
              \/ is_binary_operator(char)
              \/ is_close_bracket(char) /\ get_matching_bracket(prev) # char
              \/ is_main_operator(char)
              \/ is_unary_post_operator(char)
          ELSE IF is_close_bracket(prev) THEN
              is_digit(char) \/ is_open_bracket(char)
          ELSE IF is_main_operator(prev) THEN
              IF prev = "=" THEN ~is_digit(char) /\ char # "-"
              ELSE is_main_operator(char) \/ is_close_bracket(char)
          ELSE FALSE

\* Lines 709-728.
RejectedByRightSide(char, index, current, main_op_so_far) ==
    LET prev_char == IF index > 0 THEN current[index] ELSE "none" IN
    \/ /\ main_op_so_far = "="
       /\ \/ ~is_digit(char) /\ char # "-"
          \/ char = "-" /\ prev_char = "=" /\ AtOrPastLengthMinus(index, 1)
    \/ /\ index = length - 1
       /\ (is_binary_operator(char) \/ is_open_bracket(char) \/ is_main_operator(char))

\* Lines 730-759.
RejectedByBrackets(char, index, current) ==
    LET scan == DepthScan(Slice(current, 1, index) \o << char >>, 1, 0, 0, << >>) IN
    \/ ~scan.ok
    \/ index = length - 1 /\ (scan.paren # 0 \/ scan.square # 0)

\* Lines 761-774.
RejectedByMainOperator(char, index, main_op_so_far) ==
    /\ is_main_operator(char)
    /\ \/ /\ main_op_so_far # "none"
          /\ \/ main_op_so_far # char /\ ~(main_op_so_far = ">" /\ char = "=")
             \/ main_op_so_far = char /\ char = "="
       \/ index = 0
       \/ AtOrPastLengthMinus(index, 1)

\* Lines 776-806.
RejectedBySpecial(char, index, current) ==
    LET prev_char == IF index > 0 THEN current[index] ELSE "none" IN
    \/ /\ char = "A"
       /\ (prev_char = "none" \/ (~is_digit(prev_char) /\ ~is_close_bracket(prev_char)))
    \/ prev_char = "A" /\ ~is_digit(char) /\ ~is_open_bracket(char)
    \/ /\ char = "!"
       /\ \/ prev_char = "none"
          \/ /\ is_digit(prev_char)
             /\ prev_char = "0"
             /\ ~evaluate_expression(<< "0", "!" >>).some
          \/ is_close_bracket(prev_char) /\ prev_char = "]"
          \/ ~is_digit(prev_char) /\ ~is_close_bracket(prev_char)

\* can_place_char: "true", "false", or "panic" when the call aborts.
can_place_char(char, index, current, main_op_so_far, counts, floor_context, knowledge) ==
    IF RejectedByKnowledge(char, index, counts, knowledge) THEN "false"
    ELSE IF RejectedByFloor(char, index, current, floor_context) THEN "false"
    ELSE IF PanicsOnBracketRoom(char) THEN "panic"
    ELSE IF char = "[" /\ AtOrPastLengthMinus(index, 3) THEN "false"
    ELSE IF RejectedByNumber(char, index, current, main_op_so_far) THEN "false"
    ELSE IF RejectedBySyntax(char, index, current, floor_context) THEN "false"
    ELSE IF RejectedByRightSide(char, index, current, main_op_so_far) THEN "false"
    ELSE IF RejectedByBrackets(char, index, current) THEN "false"
    ELSE IF RejectedByMainOperator(char, index, main_op_so_far) THEN "false"
    ELSE IF RejectedBySpecial(char, index, current) THEN "false"
    ELSE "true"

\* The first occurrences of the symbols of s, in order.
RECURSIVE Unique(_, _)
Unique(s, seen) ==
    IF s = << >> THEN << >>
    ELSE IF Head(s) \in seen THEN Unique(Tail(s), seen)
    ELSE << Head(s) >> \o Unique(Tail(s), seen \cup { Head(s) })

end_chars == << "0", "1", "2", "3", "4", "5", "6", "7", "8", "9", ")", "]", "!" >>

\* Lines 822-849: the list for the context of the position.
ContextOrder(index, current, main_op_so_far, floor_context) ==
    LET prev_char == IF index > 0 THEN current[index] ELSE NUL IN
    IF floor_context.in_floor THEN
        IF floor_context.has_slash_in_current_floor
        THEN << "0", "1", "2", "3", "4", "5", "6", "7", "8", "9", "]" >>
        ELSE << "0", "1", "2", "3", "4", "5", "6", "7", "8", "9", "/" >>
    ELSE IF main_op_so_far = "=" THEN
        IF prev_char = "="
        THEN << "-", "0", "1", "2", "3", "4", "5", "6", "7", "8", "9" >>
        ELSE << "0", "1", "2", "3", "4", "5", "6", "7", "8", "9" >>
    ELSE IF index = 0 THEN
        << "1", "2", "3", "4", "5", "6", "7", "8", "9", "(", "[" >>
    ELSE IF is_digit(prev_char) THEN
        << "0", "1", "2", "3", "4", "5", "6", "7", "8", "9", "+", "-", "*", "/", "%", "^", "A", "!", ")", "]", "=", ">", "[" >>
    ELSE IF \/ is_binary_operator(prev_char) \/ prev_char = "A"
            \/ (is_main_operator(prev_char) /\ prev_char # "=") THEN
        << "1", "2", "3", "4", "5", "6", "7", "8", "9", "0", "(", "[" >>
    ELSE IF is_open_bracket(prev_char) THEN
        << "1", "2", "3", "4", "5", "6", "7", "8", "9", "0", "(", "[" >>
    ELSE IF is_close_bracket(prev_char) \/ is_unary_post_operator(prev_char) THEN
        << "+", "-", "*", "/", "%", "^", "A", "!", ")", "]", "=", ">", "[" >>
    ELSE
        << "1", "2", "3", "4", "5", "6", "7", "8", "9", "0", "+", "-", "*", "/", "=", "(", ")", "[", "]", "%", "^", "!", "A", ">" >>

\* Lines 851-859: the cut to the terminators at the last position.
LastPositionOrder(ordered_chars, index, current, floor_context) ==
    LET prev_char == IF index > 0 THEN current[index] ELSE NUL
        IsEnd(c) == c \in Range(end_chars)
        retained == SelectSeq(ordered_chars, IsEnd)
    IN IF index = length - 1 /\ ~floor_context.in_floor THEN
           IF retained = << >> /\ prev_char # NUL THEN end_chars
           ELSE IF retained = << >> /\ index = 0 /\ length = 1 THEN DigitChars
           ELSE retained
       ELSE ordered_chars

\* A faulty get_optimized_char_order: at the last position the terminators
\* are appended to the list in place of the cut to them, and a symbol already
\* taken is taken again.
get_optimized_char_order_repeating(index, current, main_op_so_far, floor_context, knowledge) ==
    IF knowledge.fixed_chars[index + 1] # "none" THEN << knowledge.fixed_chars[index + 1] >>
    ELSE LET Allowed(c) == /\ c \notin knowledge.globally_forbidden
                           /\ c \notin knowledge.cannot_be_at[index + 1]
         IN SelectSeq(ContextOrder(index, current, main_op_so_far, floor_context)
                          \o (IF index = length - 1 /\ ~floor_context.in_floor
                              THEN end_chars ELSE << >>),
                      Allowed)

\* get_optimized_char_order.
get_optimized_char_order(index, current, main_op_so_far, floor_context, knowledge) ==
    IF knowledge.fixed_chars[index + 1] # "none" THEN << knowledge.fixed_chars[index + 1] >>
    ELSE LET ordered_chars ==
                 LastPositionOrder(ContextOrder(index, current, main_op_so_far, floor_context),
                                   index, current, floor_context)
             Allowed(c) == /\ c \notin knowledge.globally_forbidden
                           /\ c \notin knowledge.cannot_be_at[index + 1]
         IN SelectSeq(Unique(ordered_chars, {}), Allowed)

(***************************************************************************)
(* recursive_search as a stack machine.  A frame is one call: its index,   *)
(* main_op_so_far and floor_context arguments, the symbols it has still to *)
(* try (the pinned symbol alone on a pinned position, none at a leaf), and *)
(* whether it is waiting for the call it made for the first of them.       *)
(***************************************************************************)

NoFloor == [in_floor |-> FALSE, has_slash_in_current_floor |-> FALSE]

Frame(index, main_op_so_far, floor_context, current, knowledge) ==
    [ index |-> index,
      main_op_so_far |-> main_op_so_far,
      floor_context |-> floor_context,
      order |-> IF index = length THEN << >>
                ELSE get_optimized_char_order(index, current, main_op_so_far,
                                              floor_context, knowledge),
      calling |-> FALSE ]

\* A faulty update of the floor context: a "/" counts as the slash of a floor
\* span wherever it is placed.
next_floor_context_any_slash(char, floor_context) ==
    IF char = "[" THEN [in_floor |-> TRUE, has_slash_in_current_floor |-> FALSE]
    ELSE IF char = "]" /\ floor_context.in_floor
         THEN [in_floor |-> FALSE, has_slash_in_current_floor |-> FALSE]
    ELSE IF char = "/"
         THEN [in_floor |-> floor_context.in_floor, has_slash_in_current_floor |-> TRUE]
    ELSE floor_context

\* Lines 924-931 and 951-958.
next_floor_context(char, floor_context) ==
    IF char = "[" THEN [in_floor |-> TRUE, has_slash_in_current_floor |-> FALSE]
    ELSE IF char = "]" /\ floor_context.in_floor
         THEN [in_floor |-> FALSE, has_slash_in_current_floor |-> FALSE]
    ELSE IF char = "/" /\ floor_context.in_floor
         THEN [in_floor |-> TRUE, has_slash_in_current_floor |-> TRUE]
    ELSE floor_context

\* A faulty undo: the entry is kept when the count reaches zero.
DecrementKeepingZero(counts, char) == [counts EXCEPT ![char] = @ - 1]

\* Lines 941-944 and 968-971: the count of char goes down by one and the
\* entry is removed when it reaches zero.
Decrement(counts, char) ==
    IF counts[char] - 1 = 0
    THEN [k \in (DOMAIN counts) \ { char } |-> counts[k]]
    ELSE [counts EXCEPT ![char] = @ - 1]

Increment(counts, char) == Put(counts, char, Get(counts, char, 0) + 1)

Top == stack[Len(stack)]

\* A faulty return: the caller does not move on to its next symbol.
ReturnToCallerRepeating ==
    IF Len(stack) = 1
    THEN /\ stack' = << >>
         /\ pc' = "done"
         /\ queries' = queries + 1
         /\ UNCHANGED current_expression_counts
    ELSE LET caller == stack[Len(stack) - 1] IN
         /\ stack' = [SubSeq(stack, 1, Len(stack) - 1) EXCEPT
                         ![Len(stack) - 1] = [caller EXCEPT !.calling = FALSE]]
         /\ current_expression_counts' =
                Decrement(current_expression_counts, Head(caller.order))
         /\ UNCHANGED << pc, queries >>

\* The innermost call returns: its frame is popped and its caller, which was
\* waiting on the first symbol of its list, takes the count back and goes on
\* to its next symbol.  The outermost call returns to search, which returns
\* the results (lines 1001-1004).
ReturnToCaller ==
    IF Len(stack) = 1
    THEN /\ stack' = << >>
         /\ pc' = "done"
         /\ queries' = queries + 1
         /\ UNCHANGED current_expression_counts
    ELSE LET caller == stack[Len(stack) - 1] IN
         /\ stack' = [SubSeq(stack, 1, Len(stack) - 1) EXCEPT
                         ![Len(stack) - 1] = [caller EXCEPT !.order = Tail(@),
                                                            !.calling = FALSE]]
         /\ current_expression_counts' =
                Decrement(current_expression_counts, Head(caller.order))
         /\ UNCHANGED << pc, queries >>

\* A faulty leaf check: the loop over the minimum counts is missing.
CountsSatisfiedExactOnly(counts, knowledge) ==
    \A ch \in DOMAIN knowledge.must_appear_exact_count :
        Get(counts, ch, 0) = knowledge.must_appear_exact_count[ch]

\* Lines 899-912: the count requirements at the leaf.
CountsSatisfied(counts, knowledge) ==
    /\ \A ch \in DOMAIN knowledge.must_appear_exact_count :
          Get(counts, ch, 0) = knowledge.must_appear_exact_count[ch]
    /\ \A ch \in DOMAIN knowledge.must_appear_min_count :
          ch \notin DOMAIN knowledge.must_appear_exact_count
              => Get(counts, ch, 0) >= knowledge.must_appear_min_count[ch]

\* A faulty leaf: the candidate is not handed to is_valid_solution.
AcceptedWithoutEvaluation(expression, main_op_so_far, counts, knowledge) ==
    /\ main_op_so_far # "none"
    /\ check_brackets(expression)
    /\ CountsSatisfied(counts, knowledge)

\* Lines 888-917: the finished candidate is accepted.
Accepted(expression, main_op_so_far, counts, knowledge) ==
    /\ main_op_so_far # "none"
    /\ check_brackets(expression)
    /\ CountsSatisfied(counts, knowledge)
    /\ is_valid_solution(expression)

\* search, lines 983-989: the compiler reports a conflict and search returns
\* the empty sequence.
SearchConflict ==
    /\ pc = "idle"
    /\ \E compiled \in { preprocess_constraints(length, rows) } :
          /\ ~compiled.ok
          /\ \E e \in compiled.errors : error' = e
    /\ pc' = "done"
    /\ results' = << >>
    /\ queries' = queries + 1
    /\ UNCHANGED utility
    /\ UNCHANGED << length, max_operand_value, overflow_checks, rows, gk,
                    current_expression, current_expression_counts, stack,
                    searched_count, previous_results >>

\* A faulty search: the results of the previous call are not cleared.
SearchStartKeepingResults ==
    /\ pc = "idle"
    /\ \E compiled \in { preprocess_constraints(length, rows) } :
          /\ compiled.ok
          /\ gk' = compiled.gk
          /\ current_expression' = [i \in 1..length |-> NUL]
          /\ stack' = << Frame(0, "none", NoFloor, [i \in 1..length |-> NUL],
                               compiled.gk) >>
    /\ pc' = "searching"
    /\ error' = << "none", "" >>
    /\ current_expression_counts' = EmptyMap
    /\ searched_count' = 0
    /\ UNCHANGED utility
    /\ UNCHANGED << length, max_operand_value, overflow_checks, rows, queries,
                    previous_results, results >>

\* search, lines 983-999: the knowledge compiles and the outermost call of
\* recursive_search is made.
SearchStart ==
    /\ pc = "idle"
    /\ \E compiled \in { preprocess_constraints(length, rows) } :
          /\ compiled.ok
          /\ gk' = compiled.gk
          /\ current_expression' = [i \in 1..length |-> NUL]
          /\ stack' = << Frame(0, "none", NoFloor, [i \in 1..length |-> NUL],
                               compiled.gk) >>
    /\ pc' = "searching"
    /\ error' = << "none", "" >>
    /\ current_expression_counts' = EmptyMap
    /\ results' = << >>
    /\ searched_count' = 0
    /\ UNCHANGED utility
    /\ UNCHANGED << length, max_operand_value, overflow_checks, rows, queries,
                    previous_results >>

\* What the innermost frame f does with the verdict of can_place_char on char
\* (lines 933-945 and 960-972): an accepted symbol is written and counted and
\* the call for the next position is made; a rejected symbol is passed over;
\* a panic ends the query.
Placed(f, char) == [current_expression EXCEPT ![f.index + 1] = char]

Act(f, char, verdict) ==
    IF verdict = "true" THEN
        /\ current_expression' = Placed(f, char)
        /\ current_expression_counts' = Increment(current_expression_counts, char)
        /\ stack' = [stack EXCEPT ![Len(stack)].calling = TRUE]
                      \o << Frame(f.index + 1,
                                  IF is_main_operator(char) THEN char ELSE f.main_op_so_far,
                                  next_floor_context(char, f.floor_context),
                                  Placed(f, char), gk) >>
        /\ UNCHANGED pc
    ELSE IF verdict = "panic" THEN
        /\ pc' = "panicked"
        /\ UNCHANGED << current_expression, current_expression_counts, stack >>
    ELSE
        /\ stack' = [stack EXCEPT ![Len(stack)].order = Tail(@)]
        /\ UNCHANGED << pc, current_expression, current_expression_counts >>

\* The call made for symbol char by the innermost frame.
Attempt(char) ==
    Act(Top, char,
        can_place_char(char, Top.index, current_expression, Top.main_op_so_far,
                       current_expression_counts, Top.floor_context, gk))

\* recursive_search on a pinned position (lines 923-945).
PlaceFixed ==
    /\ pc = "searching"
    /\ Top.index < length
    /\ gk.fixed_chars[Top.index + 1] # "none"
    /\ ~Top.calling
    /\ Top.order # << >>
    /\ Attempt(gk.fixed_chars[Top.index + 1])
    /\ UNCHANGED utility
    /\ UNCHANGED << length, max_operand_value, overflow_checks, rows, gk, error,
                    results, searched_count, queries, previous_results >>

\* recursive_search on a free position: the next symbol of the optimized
\* order (lines 946-973).
TryChar ==
    /\ pc = "searching"
    /\ Top.index < length
    /\ gk.fixed_chars[Top.index + 1] = "none"
    /\ ~Top.calling
    /\ Top.order # << >>
    /\ Attempt(Head(Top.order))
    /\ UNCHANGED utility
    /\ UNCHANGED << length, max_operand_value, overflow_checks, rows, gk, error,
                    results, searched_count, queries, previous_results >>

\* recursive_search at index == length (lines 885-920).
Terminal ==
    /\ pc = "searching"
    /\ Top.index = length
    /\ searched_count' = searched_count + 1
    /\ results' = IF Accepted(current_expression, Top.main_op_so_far,
                              current_expression_counts, gk)
                  THEN Append(results, current_expression)
                  ELSE results
    /\ ReturnToCaller
    /\ UNCHANGED utility
    /\ UNCHANGED << length, max_operand_value, overflow_checks, rows, gk, error,
                    current_expression, previous_results >>

\* A call below the leaves has no symbol left to try and returns.
Return ==
    /\ pc = "searching"
    /\ Top.index < length
    /\ ~Top.calling
    /\ Top.order = << >>
    /\ ReturnToCaller
    /\ UNCHANGED utility
    /\ UNCHANGED << length, max_operand_value, overflow_checks, rows, gk, error,
                    current_expression, results, searched_count, previous_results >>

(***************************************************************************)
(* Queries                                                                 *)
(***************************************************************************)

Tile(char, state) == [char |-> char, state |-> state]

NoSymbol == Tile("", "empty")

\* Rows of `width` "empty" tiles that carry the symbols of the sequence
\* greyed, in order: the feedback of guesses none of whose symbols is in the
\* answer.
RECURSIVE GreyRows(_, _)
GreyRows(greyed, width) ==
    IF greyed = << >> THEN << >>
    ELSE IF Len(greyed) <= width
         THEN << [i \in 1..Len(greyed) |-> Tile(greyed[i], "empty")] >>
    ELSE << [i \in 1..width |-> Tile(greyed[i], "empty")] >>
             \o GreyRows(SubSeq(greyed, width + 1, Len(greyed)), width)

\* The feedback that greys out every symbol of the alphabet outside live.
GreyAllBut(live, width) ==
    LET Dead(c) == c \notin live IN GreyRows(SelectSeq(valid_chars, Dead), width)

Query(len, maxop, checks, feedback) ==
    [length |-> len, max_operand_value |-> maxop, overflow_checks |-> checks,
     rows |-> feedback]

\* A row of len no-symbol tiles with the given tiles at their 0-based columns
\* (a column >= len extends the row).
RowWith(len, tiles) ==
    LET widths == { len } \cup { t.col + 1 : t \in tiles }
        width == CHOOSE m \in widths : \A w \in widths : w <= m
    IN [i \in 1..width |->
           IF \E t \in tiles : t.col = i - 1
           THEN LET t == CHOOSE t \in tiles : t.col = i - 1 IN Tile(t.char, t.state)
           ELSE NoSymbol]

At(col, char, state) == [col |-> col, char |-> char, state |-> state]

MaxLength == 7

MaxRows == 2

MaxOperandValues == { 12, 99 }

\* The symbols left alive in the free searches of each length; the longer the
\* candidate, the fewer symbols are left.
LiveFor(len) ==
    IF len <= 3 THEN Alphabet
    ELSE IF len = 4 THEN { "0", "1", "2", "3", "+", "-", "*", "/", "=", ">", "(", ")",
                           "!", "[", "]", "A" }
    ELSE IF len = 5 THEN { "0", "1", "2", "3", "+", "-", "=", ">", "(", ")", "!", "A" }
    ELSE IF len = 6 THEN { "1", "2", "+", "-", "=", ">" }
    ELSE { "1", "2", "=", ">", "[", "/", "]" }

\* A build with overflow checks differs from one without only below length 3.
Builds(len) == IF len < 3 THEN BOOLEAN ELSE { FALSE }

\* Searches of every length, constrained only by greyed-out symbols.
FreeQueries ==
    UNION { { Query(len, maxop, checks, GreyAllBut(LiveFor(len), len)) :
                maxop \in MaxOperandValues, checks \in Builds(len) } :
            len \in 1..MaxLength }

\* Feedback rows for candidates of length len: pins, "present" and "empty"
\* tiles, exact and minimum counts, entries beyond the length.
Catalogue(len) ==
    { RowWith(len, { At(0, "1", "correct") }),
      RowWith(len, { At(0, "2", "correct") }),
      RowWith(len, { At(1, "=", "correct") }),
      RowWith(len, { At(1, ">", "correct") }),
      RowWith(len, { At(0, "1", "present") }),
      RowWith(len, { At(len - 1, "1", "empty") }),
      RowWith(len, { At(0, "1", "correct"), At(len - 1, "1", "empty") }),
      RowWith(len, { At(0, "1", "present"), At(len - 1, "1", "present") }),
      RowWith(len, { At(len, "1", "empty") }),
      RowWith(len, { At(len, "2", "present") }),
      RowWith(len, { At(1, "=", "present") }),
      RowWith(len, { At(0, "2", "present"), At(1, ">", "correct"),
                     At(len - 1, "2", "empty") }),
      RowWith(len, { At(0, "4", "present"), At(len - 1, "5", "present") }) }

RowSequences(catalogue, n) == UNION { [1..k -> catalogue] : k \in 0..n }

CatalogueLive == { "0", "1", "2", "3", "=", ">", "+", "-", "(", "!" }

\* Length-3 searches under every sequence of at most MaxRows catalogue rows.
CatalogueQueries ==
    { Query(3, 99, FALSE, GreyAllBut(CatalogueLive, 3) \o feedback) :
        feedback \in RowSequences(Catalogue(3), MaxRows) }

\* Rows that pin operators, brackets and comparison symbols of a length-5
\* candidate, comparison symbols at two positions among them.
PinnedRows ==
    { RowWith(5, { At(1, ">", "correct"), At(3, "=", "correct") }),
      RowWith(5, { At(1, "=", "correct"), At(3, "=", "correct") }),
      RowWith(5, { At(1, ">", "correct"), At(3, ">", "correct") }),
      RowWith(5, { At(1, "=", "correct"), At(3, ">", "correct") }),
      RowWith(5, { At(1, "+", "correct"), At(3, "=", "correct") }),
      RowWith(5, { At(0, "(", "correct"), At(2, ")", "correct") }),
      RowWith(5, { At(1, "=", "correct"), At(3, "-", "correct") }) }

PinnedQueries == { Query(5, 99, FALSE, << row >>) : row \in PinnedRows }

\* The row of "correct" tiles that spells text.
PinRow(text) == [i \in 1..Len(text) |-> Tile(text[i], "correct")]

\* A solver whose maximum operand value is i32::MAX, under a row that pins
\* every position: a numeral of ten digits, beyond what parse::<i32> reads.
WideNumeralQueries ==
    { Query(Len(WideNumeral) + 4, I32Max, FALSE,
            << PinRow(WideNumeral \o << "^", "0", ">", "0" >>) >>) }

\* Rows that pin the symbols of a floor span in a length-7 candidate: a
\* whole span, a span without "/", a "[" inside a span, a "]" outside one,
\* a "[" among the last three positions, a "/" before the span.
FloorPinnedRows ==
    { RowWith(7, { At(0, "[", "correct"), At(2, "/", "correct"), At(4, "]", "correct") }),
      RowWith(7, { At(0, "[", "correct"), At(2, "]", "correct") }),
      RowWith(7, { At(0, "[", "correct"), At(1, "[", "correct") }),
      RowWith(7, { At(1, "]", "correct") }),
      RowWith(7, { At(4, "[", "correct") }),
      RowWith(7, { At(1, "/", "correct"), At(2, "[", "correct"), At(4, "/", "correct") }) }

FloorPinnedQueries ==
    { Query(7, 99, FALSE, GreyAllBut(LiveFor(7), 7) \o << row >>) : row \in FloorPinnedRows }

Queries ==
    FreeQueries \cup CatalogueQueries \cup PinnedQueries \cup WideNumeralQueries
                \cup FloorPinnedQueries

Init ==
    /\ \E q \in Queries :
          /\ length = q.length
          /\ max_operand_value = q.max_operand_value
          /\ overflow_checks = q.overflow_checks
          /\ rows = q.rows
    /\ pc = "idle"
    /\ gk = InitialKnowledge(0)
    /\ error = << "none", "" >>
    /\ current_expression = << >>
    /\ current_expression_counts = EmptyMap
    /\ stack = << >>
    /\ results = << >>
    /\ searched_count = 0
    /\ queries = 0
    /\ previous_results = << >>
    /\ method = "none"
    /\ argument = << >>
    /\ returned_value = None
    /\ returned_bool = FALSE

Next ==
    \/ SearchConflict
    \/ SearchStart
    \/ PlaceFixed
    \/ TryChar
    \/ Terminal
    \/ Return

Spec == Init /\ [][Next]_vars

(***************************************************************************)
(* The same solver answering the same feedback again.                      *)
(***************************************************************************)

MaxQueries == 2

\* search is called again on the same solver with the same feedback; what
\* the previous call returned is kept for comparison.
NextQuery ==
    /\ pc = "done"
    /\ queries < MaxQueries
    /\ pc' = "idle"
    /\ previous_results' = results
    /\ UNCHANGED utility
    /\ UNCHANGED << length, max_operand_value, overflow_checks, rows, gk, error,
                    current_expression, current_expression_counts, stack, results,
                    searched_count, queries >>

InitRepeat ==
    /\ Init
    /\ \E q \in CatalogueQueries : rows = q.rows /\ length = q.length
                                   /\ max_operand_value = q.max_operand_value

NextRepeat == Next \/ NextQuery

SpecRepeat == InitRepeat /\ [][NextRepeat]_vars

(***************************************************************************)
(* The single-expression utilities: evaluate_expression and                *)
(* is_valid_solution called on a string handed in from outside.            *)
(***************************************************************************)

MaxExprLen == 3

MaxNumeral == 13

\* The symbols of the short strings: every symbol class of the alphabet, the
\* digits cut to "0".."3".
ExprSymbols ==
    { "0", "1", "2", "3", "+", "-", "*", "/", "%", "^", "=", ">", "(", ")",
      "[", "]", "!", "A" }

\* Every string of at most MaxExprLen symbols, the empty one included.
ShortStrings == UNION { [1..n -> ExprSymbols] : n \in 0..MaxExprLen }

Numerals == { NatToStr(n) : n \in 0..MaxNumeral }

\* The numerals, the same with a leading "0", i32::MAX and i32::MAX + 1.
Literals ==
    Numerals \cup { << "0" >> \o n : n \in Numerals }
             \cup { NatToStr(I32Max), WideNumeral }

FloorSpans ==
    { << "[" >> \o a \o << "]" >> : a \in Literals }
        \cup { << "[" >> \o a \o << "/" >> \o b \o << "]" >> : a \in Literals, b \in Literals }

\* Bracketed content that is neither a literal nor two literals around "/".
OtherContents ==
    { << >>, << "/" >>, << "7", "/" >>, << "/", "2" >>, << "7", "/", "/", "2" >>,
      << "7", "/", "2", "/", "1" >>, << "[", "7", "]" >>, << "[", "7", "/", "2", "]" >>,
      << "(", "7", ")" >>, << "7", "+", "2" >>, << "-", "7" >>, << "7", "/", "-", "2" >>,
      << "3", "!" >>, << "5", "A", "2" >>, << "7", "=", "7" >>, << "7", ">", "2" >>,
      << "7", "*", "2", "/", "2" >>, << "7", "/", "2", "^", "1" >> }

\* A floor span, alone, after "1+", before "+1", and after a valid span.
OtherSpans ==
    UNION { { << "[" >> \o w \o << "]" >>,
              << "1", "+", "[" >> \o w \o << "]" >>,
              << "[" >> \o w \o << "]", "+", "1" >>,
              << "[", "7", "/", "2", "]", "+", "[" >> \o w \o << "]" >> } :
            w \in OtherContents }
        \cup { << "[", "7", "/", "2", "]", "+", "[", "5", "]" >>, << "[", "7" >>,
               << "7", "]" >>, << "[", "[", "7", "]" >> }

Factorials ==
    { n \o << "!" >> : n \in Literals }
        \cup { n \o << "!", "!" >> : n \in Literals }
        \cup { << "1", "+" >> \o n \o << "!" >> : n \in Literals }
        \cup { << "!" >>, << "!", "3" >>, << "(", "3", ")", "!" >>, << "[", "3", "]", "!" >>,
               << "[", "7", "/", "2", "]", "!", "!" >>, << "1", "+", "!" >>,
               << "(", "3", "!", ")", "!" >>, << "5", "A", "!" >>, << "3", "!", "+", "4", "!" >>,
               << "3", "!", "!", "!" >>, << "2", "^", "3", "!" >>, << "1", "!", "2" >> }

Arrangements ==
    { m \o << "A" >> \o n : m \in Literals, n \in Literals }
        \cup { << "A" >>, << "A", "2" >>, << "5", "A" >>, << "(", "5", ")", "A", "2" >>,
               << "5", "A", "(", "2", ")" >>, << "[", "5", "]", "A", "2" >>,
               << "5", "A", "[", "2", "]" >>, << "3", "!", "A", "2" >>,
               << "5", "A", "2", "!" >>, << "5", "A", "-", "2" >>, << "5", "+", "A", "2" >>,
               << "5", "A", "2", "A", "2" >>, << "3", "A", "2", "A", "2" >>,
               << "1", "+", "5", "A", "2" >>, << "5", "A", "2", "*", "2" >>,
               << "[", "7", "/", "2", "]", "A", "[", "5", "/", "2", "]" >> }

\* Sides of a comparison: integral, fractional, undefined, failing, empty,
\* and with a comparison symbol inside brackets.
Sides ==
    { << >>, << "0" >>, << "1" >>, << "2" >>, << "-", "1" >>, << "1", "+", "1" >>,
      << "7", "/", "2" >>, << "1", "/", "0" >>, << "(", "2", ")" >>,
      << "[", "7", "/", "2", "]" >>, << "3", "!" >>, << "3", "A", "1" >>,
      << "(", "2", ">", "1", ")" >>, << "[", "2", "=", "2", "]" >>, << "(", "2" >>,
      << "2", ")" >> }

Connectors ==
    { << "=" >>, << ">" >>, << ">", "=" >>, << "=", ">" >>, << "=", "=" >>, << ">", ">" >> }

Comparisons ==
    { l \o c \o r : l \in Sides, c \in Connectors, r \in Sides }
        \cup { << "3", ">", "2", "=", "2" >>, << "3", ">", "2", "=", "1" >>,
               << "2", "=", "2", ">", "1" >>, << "3", ">", "2", ">", "1" >>,
               << "2", "=", "2", "=", "2" >>, << "(", "3", ">", "=", "2", ")" >> }

\* Operands of one arithmetic operation: the numerals, and numerals near
\* the square root of i32::MAX and at i32::MAX.
Operands == Numerals \cup { NatToStr(46340), NatToStr(46341), NatToStr(I32Max) }

Operations ==
    { a \o << op >> \o b :
        a \in Operands, op \in { "+", "-", "*", "/", "%", "^" }, b \in Operands }

\* Expressions whose value is at or next to an end of the i32 range.
Extremes ==
    { << "-" >> \o WideNumeral,
      << "0", "-" >> \o NatToStr(I32Max) \o << "-", "1" >>,
      << "0", "-" >> \o NatToStr(I32Max) \o << "-", "2" >>,
      << "-" >> \o NatToStr(I32Max) \o << "-", "1" >>,
      << "-", "(" >> \o NatToStr(I32Max) \o << "+", "1", ")" >>,
      << "(", "0", "-", "2", ")", "^", "3", "1" >>,
      << "(", "0", "-", "2", ")", "^", "3", "2" >>,
      << "(", "0", "-", "2", ")", "^", "3", "3" >>,
      << "2", "^", "3", "1" >>,
      << "2", "^", "3", "1", "-", "1" >>,
      << "0", "-", "6", "5", "5", "3", "6", "*", "3", "2", "7", "6", "8" >>,
      << "(", "0", "-", "6", "5", "5", "3", "6", ")", "*", "3", "2", "7", "6", "9" >>,
      WideNumeral,
      WideNumeral \o << "^", "0" >>,
      NatToStr(I32Max) \o << "+", "1" >>,
      NatToStr(I32Max) \o << "+", "0" >> }

\* n floor spans "[7]" in a row, joined by "+".
RECURSIVE SpanChain(_)
SpanChain(n) ==
    IF n = 1 THEN << "[", "7", "]" >>
    ELSE SpanChain(n - 1) \o << "+", "[", "7", "]" >>

\* Chains of up to one span more than the loop has passes, and chains that
\* end in a "[" left open.
SpanChains ==
    { SpanChain(n) : n \in 1..(max_bracket_iterations + 1) }
        \cup { SpanChain(n) \o << "+", "[", "7" >> : n \in 1..(max_bracket_iterations + 1) }

Expressions ==
    ShortStrings \cup FloorSpans \cup OtherSpans \cup Factorials \cup Arrangements
                 \cup Comparisons \cup Operations \cup Extremes \cup SpanChains

\* The solver and its search state, which the utilities leave alone.
solver ==
    << length, max_operand_value, overflow_checks, rows, pc, gk, error,
       current_expression, current_expression_counts, stack, results,
       searched_count, queries, previous_results >>

\* evaluate_expression(&self, expr).
Evaluate ==
    /\ method = "none"
    /\ method' = "evaluate_expression"
    /\ returned_value' = evaluate_expression(argument)
    /\ UNCHANGED << argument, returned_bool, solver >>

\* is_valid_solution(&self, expression).
Validate ==
    /\ method = "none"
    /\ method' = "is_valid_solution"
    /\ returned_bool' = is_valid_solution(argument)
    /\ UNCHANGED << argument, returned_value, solver >>

\* A solver fresh from new, and a string to hand to one of its utilities.
InitEval ==
    /\ length = 3
    /\ max_operand_value = 99
    /\ overflow_checks = FALSE
    /\ rows = << >>
    /\ pc = "idle"
    /\ gk = InitialKnowledge(0)
    /\ error = << "none", "" >>
    /\ current_expression = << >>
    /\ current_expression_counts = EmptyMap
    /\ stack = << >>
    /\ results = << >>
    /\ searched_count = 0
    /\ queries = 0
    /\ previous_results = << >>
    /\ method = "none"
    /\ argument \in Expressions
    /\ returned_value = None
    /\ returned_bool = FALSE

NextEval == Evaluate \/ Validate

SpecEval == InitEval /\ [][NextEval]_vars

(***************************************************************************)
(* Properties of what search returns                                       *)
(***************************************************************************)

\* search has returned without a conflict.
Returned == pc = "done" /\ error[1] = "none"

\* Brackets opened and not yet closed before position i of r.
DepthBefore(r, i) ==
    Cardinality({ j \in 1..(i - 1) : r[j] \in { "(", "[" } })
        - Cardinality({ j \in 1..(i - 1) : r[j] \in { ")", "]" } })

TopLevelComparisons(r) ==
    { i \in 1..Len(r) : r[i] \in { "=", ">" } /\ DepthBefore(r, i) = 0 }

\* The tiles of the feedback at a column below length that carry a symbol:
\* [col, char, state], col 0-based.
TilesInRange ==
    UNION { { [col |-> c - 1, char |-> rows[r][c].char, state |-> rows[r][c].state] :
                c \in { k \in 1..Len(rows[r]) : k <= length /\ rows[r][k].char # "" } } :
            r \in 1..Len(rows) }

\* C1: every string search returns has exactly `length` symbols, balanced
\* (stack-matched) round and square brackets, and satisfies is_valid_equation.
ResultsAreValidEquations ==
    pc = "done" =>
        \A k \in 1..Len(results) :
            /\ Len(results[k]) = length
            /\ check_brackets(results[k])
            /\ is_valid_equation(results[k])

\* A search has returned an equation with brackets in it.
ReturnedBracketedEquation ==
    /\ pc = "done"
    /\ \E k \in 1..Len(results) : \E i \in 1..length : results[k][i] \in { "(", "[" }

\* C2: every string search returns has exactly one comparison symbol ("=" or
\* ">") outside all brackets, also under feedback that pins comparison
\* symbols.
OneTopLevelComparison ==
    pc = "done" =>
        \A k \in 1..Len(results) : Cardinality(TopLevelComparisons(results[k])) = 1

\* A search under feedback that pins a comparison symbol has returned an
\* equation.
ReturnedWithPinnedComparison ==
    /\ Returned
    /\ results # << >>
    /\ \E t \in TilesInRange : t.state = "correct" /\ t.char \in { "=", ">" }

\* C3: when the feedback compiles, every string returned has each symbol with
\* an exact count exactly that often, each symbol with only a minimum count at
\* least that often, and no globally forbidden symbol.
ResultsMeetCounts ==
    Returned =>
        \A k \in 1..Len(results) :
            /\ \A ch \in DOMAIN gk.must_appear_exact_count :
                  CountChar(results[k], ch) = gk.must_appear_exact_count[ch]
            /\ \A ch \in (DOMAIN gk.must_appear_min_count)
                             \ (DOMAIN gk.must_appear_exact_count) :
                  CountChar(results[k], ch) >= gk.must_appear_min_count[ch]
            /\ \A ch \in gk.globally_forbidden : CountChar(results[k], ch) = 0

\* A search has returned an equation under knowledge with a positive exact
\* count, a positive minimum without exact count, and a forbidden symbol.
ReturnedUnderCounts ==
    /\ Returned
    /\ results # << >>
    /\ \E ch \in DOMAIN gk.must_appear_exact_count : gk.must_appear_exact_count[ch] > 0
    /\ \E ch \in (DOMAIN gk.must_appear_min_count) \ (DOMAIN gk.must_appear_exact_count) :
          gk.must_appear_min_count[ch] > 0
    /\ gk.globally_forbidden # {}

\* C4: every string returned has, at every position pinned by a "correct"
\* tile, the pinned symbol, which is the one fixed_chars records.
ResultsKeepPins ==
    Returned =>
        /\ \A t \in TilesInRange :
              t.state = "correct" =>
                  /\ gk.fixed_chars[t.col + 1] = t.char
                  /\ \A k \in 1..Len(results) : results[k][t.col + 1] = t.char
        /\ \A i \in 1..length :
              gk.fixed_chars[i] # "none" =>
                  \A k \in 1..Len(results) : results[k][i] = gk.fixed_chars[i]

\* A search under feedback with a "correct" tile has returned an equation.
ReturnedWithPin ==
    /\ Returned
    /\ results # << >>
    /\ \E t \in TilesInRange : t.state = "correct"

\* C5: when the feedback compiles, no string returned has the symbol of a
\* "present" or "empty" tile at the position of that tile.
ResultsAvoidExcludedPositions ==
    Returned =>
        \A t \in TilesInRange :
            t.state \in { "present", "empty" } =>
                \A k \in 1..Len(results) : results[k][t.col + 1] # t.char

\* A search has returned an equation that holds the symbol of a "present"
\* tile, at another position than the tile's.
ReturnedWithPresentSymbol ==
    /\ Returned
    /\ \E t \in TilesInRange :
          /\ t.state = "present"
          /\ \E k \in 1..Len(results) : Contains(results[k], t.char)

\* The strings that extend prefix to the full length such that can_place_char
\* accepts every symbol given the symbols before it and the leaf accepts the
\* string: what recursive_search finds when every symbol of the alphabet is
\* tried at every position.
RECURSIVE Extensions(_, _, _, _)
Extensions(prefix, main_op_so_far, counts, floor_context) ==
    IF Len(prefix) = length
    THEN IF Accepted(prefix, main_op_so_far, counts, gk) THEN { prefix } ELSE {}
    ELSE UNION { Extensions(Append(prefix, c),
                            IF is_main_operator(c) THEN c ELSE main_op_so_far,
                            Increment(counts, c),
                            next_floor_context(c, floor_context)) :
                 c \in { x \in Alphabet :
                           can_place_char(x, Len(prefix), prefix, main_op_so_far, counts,
                                          floor_context, gk) = "true" } }

\* C6: search returns every string that can_place_char accepts at each position
\* and that the knowledge and the evaluator accept; the ordering heuristic
\* removes none of them.
SearchIsComplete ==
    Returned => Extensions(<< >>, "none", EmptyMap, NoFloor) \subseteq Range(results)

\* Two rows hold "correct" tiles with different symbols at one position below
\* length.
ConflictingPins ==
    \E t \in TilesInRange : \E u \in TilesInRange :
        /\ t.state = "correct" /\ u.state = "correct"
        /\ t.col = u.col /\ t.char # u.char

\* C7: when the compiler reports a conflict search returns the empty sequence
\* and recursive_search is never called; two "correct" tiles with different
\* symbols at one position make the compiler report a conflict.
ConflictReturnsNothing ==
    /\ error[1] # "none" =>
          /\ pc = "done"
          /\ results = << >>
          /\ stack = << >>
          /\ searched_count = 0
    /\ (pc # "idle" /\ ConflictingPins) => error[1] = "fixed to both"

\* A search under feedback that pins one position to two symbols has returned.
ReturnedOnConflictingPins ==
    /\ pc = "done"
    /\ ConflictingPins
    /\ error[1] = "fixed to both"
    /\ results = << >>

\* The feedback without the entries at a position >= length.
WithinLength(feedback) ==
    [r \in 1..Len(feedback) |->
        IF Len(feedback[r]) > length THEN SubSeq(feedback[r], 1, length) ELSE feedback[r]]

\* C8: entries at a position >= length are ignored: the compiler's outcome and
\* the knowledge it compiles are those of the feedback without them.
EntriesBeyondLengthIgnored ==
    pc \in { "searching", "done" } =>
        \E compiled \in { preprocess_constraints(length, WithinLength(rows)) } :
            /\ compiled.ok = (error[1] = "none")
            /\ compiled.ok => gk = compiled.gk

\* C9: the sequence search returns holds no string twice.
ResultsAreDistinct ==
    pc = "done" =>
        \A j \in 1..Len(results) : \A k \in 1..Len(results) :
            results[j] = results[k] => j = k

\* A search under no feedback at all has returned several equations.
ReturnedSeveralUnderNoFeedback ==
    /\ pc = "done"
    /\ rows = << >>
    /\ Len(results) >= 2

RunStarts(r) ==
    { a \in 1..Len(r) : is_digit(r[a]) /\ (a = 1 \/ ~is_digit(r[a - 1])) }

\* The maximal digit run of r that starts at position a.
RunAt(r, a) == Slice(r, a, DigitRunEnd(r, a) - 1)

\* The position of the comparison symbol outside all brackets, for a string
\* that has exactly one.
MainOperatorAt(r) == CHOOSE i \in TopLevelComparisons(r) : TRUE

\* C11: no string search returns holds a maximal digit run of more than one
\* digit that starts with "0", on either side of the comparison symbol, in a
\* floor span, before "!" or around "A".
NoLeadingZeroInResults ==
    pc = "done" =>
        \A k \in 1..Len(results) :
            \A a \in RunStarts(results[k]) :
                results[k][a] = "0" => Len(RunAt(results[k], a)) = 1

\* A search has returned an equation whose right side of "=" is a numeral of
\* several digits with a "0" in it, and one with a "0" standing alone.
ReturnedZeroInNumerals ==
    /\ pc = "done"
    /\ \E k \in 1..Len(results) :
          \E a \in RunStarts(results[k]) :
              /\ Len(RunAt(results[k], a)) > 1
              /\ Contains(RunAt(results[k], a), "0")
              /\ a > 1 /\ results[k][a - 1] = "="
    /\ \E k \in 1..Len(results) :
          \E a \in RunStarts(results[k]) : RunAt(results[k], a) = << "0" >>

\* The numeral is one parse::<i32> reads and its value is at most
\* max_operand_value.
WithinMaximum(numeral) ==
    /\ ParseI32(numeral).some
    /\ ParseI32(numeral).v <= max_operand_value

\* The run of r that starts at a lies to the right of a main operator "=".
RightOfEquals(r, a) == r[MainOperatorAt(r)] = "=" /\ a > MainOperatorAt(r)

\* C12: in every string search returns, every maximal digit run that is not to
\* the right of a main operator "=" has a value of at most max_operand_value.
OperandsWithinMaximum ==
    pc = "done" =>
        \A k \in 1..Len(results) :
            \A a \in RunStarts(results[k]) :
                ~RightOfEquals(results[k], a) => WithinMaximum(RunAt(results[k], a))

\* C13: for every positive length, lengths 1 and 2 included, a query whose
\* feedback compiles runs without abort, in the legality predicate, the
\* heuristic, the terminal check and the evaluator, and returns a sequence.
SearchNeverAborts == pc # "panicked"

(***************************************************************************)
(* Properties of the single-expression utilities                           *)
(***************************************************************************)

Evaluated == method = "evaluate_expression"

Validated == method = "is_valid_solution"

\* The value the model holds for the reduced argument is one it tracks.
EvaluatorExact ==
    Evaluated =>
        \/ ~ReducedExpression(argument).some
        \/ SimpleValue(ReducedExpression(argument).v).k # "unmodelled"

\* The text of the floor span around content w, and of the ratio a/b.
Span(w) == << "[" >> \o w \o << "]" >>

Ratio(a, b) == a \o << "/" >> \o b

\* The ways the number n is written in the inputs: plain, and with a leading "0".
Written(n) == { NatToStr(n), << "0" >> \o NatToStr(n) }

IsLiteral(w) == Len(w) > 0 /\ AllDigits(w)

\* A literal, or two literals around one "/".
WellShaped(w) ==
    \/ IsLiteral(w)
    \/ \E k \in 2..(Len(w) - 1) :
          /\ w[k] = "/"
          /\ IsLiteral(Slice(w, 1, k - 1))
          /\ IsLiteral(Slice(w, k + 1, Len(w)))

\* "[" minus "]" among s[i..j].
SquareBalance(s, i, j) ==
    Cardinality({ k \in i..j : s[k] = "[" }) - Cardinality({ k \in i..j : s[k] = "]" })

\* The "]" that closes the "[" at position i of s; 0 when there is none.
SpanEnd(s, i) ==
    IF \E j \in (i + 1)..Len(s) : SquareBalance(s, i, j) = 0
    THEN CHOOSE j \in (i + 1)..Len(s) :
             /\ SquareBalance(s, i, j) = 0
             /\ \A k \in (i + 1)..(j - 1) : SquareBalance(s, i, k) # 0
    ELSE 0

\* Some floor span of s, a "[" up to the "]" that closes it, has content that
\* is not well shaped.
HasIllShapedSpan(s) ==
    \E i \in 1..Len(s) :
        /\ s[i] = "["
        /\ SpanEnd(s, i) # 0
        /\ ~WellShaped(Slice(s, i + 1, SpanEnd(s, i) - 1))

\* The first symbol of the argument is "[" and its last symbol the "]" that
\* closes it.
IsOneSpan(s) == Len(s) >= 2 /\ s[1] = "[" /\ SpanEnd(s, 1) = Len(s)

\* C14, for literals of at most i32::MAX: evaluate_expression gives "[a/b]"
\* the value floor(a/b) when b # 0 and None when b = 0, and "[a]" the value
\* a; a literal above i32::MAX in the span gives None; a span whose content
\* has any other shape makes the whole evaluation None.
FloorSpansEvaluate ==
    Evaluated =>
        /\ IsOneSpan(argument) =>
              /\ \A a \in 0..MaxNumeral : \A ta \in Written(a) :
                    /\ argument = Span(ta) => returned_value = Some(a)
                    /\ \A b \in 0..MaxNumeral : \A tb \in Written(b) :
                          argument = Span(Ratio(ta, tb)) =>
                              returned_value = IF b = 0 THEN None ELSE Some(a \div b)
              /\ argument = Span(NatToStr(I32Max)) => returned_value = Some(I32Max)
              /\ argument = Span(Ratio(NatToStr(I32Max), << "2" >>)) =>
                    returned_value = Some(I32Max \div 2)
              /\ \A x \in Literals :
                    argument \in { Span(WideNumeral), Span(Ratio(WideNumeral, x)),
                                   Span(Ratio(x, WideNumeral)) } =>
                        returned_value = None
        /\ HasIllShapedSpan(argument) => returned_value = None

\* evaluate_expression has returned 3 for "[7/2]".
FloorOfRatioEvaluated ==
    /\ Evaluated
    /\ argument = Span(Ratio(<< "7" >>, << "2" >>))
    /\ returned_value = Some(3)

\* Two literals around one "/", the second with a digit other than "0".
IsRatioWithDivisor(w) ==
    \E k \in 2..(Len(w) - 1) :
        /\ w[k] = "/"
        /\ IsLiteral(Slice(w, 1, k - 1))
        /\ IsLiteral(Slice(w, k + 1, Len(w)))
        /\ \E j \in (k + 1)..Len(w) : w[j] # "0"

\* C14 as stated, for all literals: "[a]" and "[a/b]" with b # 0 have a value
\* whatever the size of a and b.
FloorSpansEvaluateAnyLiteral ==
    /\ FloorSpansEvaluate
    /\ (/\ Evaluated
        /\ IsOneSpan(argument)
        /\ \/ IsLiteral(Slice(argument, 2, Len(argument) - 1))
           \/ IsRatioWithDivisor(Slice(argument, 2, Len(argument) - 1)))
           => returned_value.some

\* 0!, 1!, ..., 12!.
FactorialTable ==
    << 1, 1, 2, 6, 24, 120, 720, 5040, 40320, 362880, 3628800, 39916800, 479001600 >>

\* n!, when n is at most 12.
FactorialOf(n) == IF n <= 12 THEN Some(FactorialTable[n + 1]) ELSE None

\* (n!)!
FactorialTwice(n) == IF FactorialOf(n).some THEN FactorialOf(FactorialOf(n).v) ELSE None

\* Some "!" of s stands first or after a symbol outside before.
FactorialAfterOther(s, before) ==
    \E i \in 1..Len(s) : s[i] = "!" /\ (i = 1 \/ s[i - 1] \notin before)

ArrangementsOf(m, n) ==
    IF n <= m /\ m <= 10
    THEN Some(FactorialTable[m + 1] \div FactorialTable[m - n + 1])
    ELSE None

\* Some "A" of s stands first, last, after a symbol outside before or before
\* a symbol outside after.
ArrangementBesideOther(s, before, after) ==
    \E i \in 1..Len(s) :
        /\ s[i] = "A"
        /\ \/ i = 1 \/ i = Len(s)
           \/ s[i - 1] \notin before
           \/ s[i + 1] \notin after

LeftExceedsRight(l, r) ==
    /\ evaluate_expression(l).some
    /\ evaluate_expression(r).some
    /\ evaluate_expression(l).v > evaluate_expression(r).v

\* Outside all brackets an "=" stands before a ">".
EqualsBeforeGreater(s) ==
    \E i \in TopLevelComparisons(s) : \E j \in TopLevelComparisons(s) :
        i < j /\ s[i] = "=" /\ s[j] = ">"

\* C17: is_valid_equation folds ">" followed by "=" outside brackets into one
\* main operator ">": L>=R with value(L) > value(R) is valid; an "=" followed
\* by a ">" outside brackets makes the string invalid.
GreaterThenEqualsIsGreater ==
    Validated =>
        /\ \A l \in Sides : \A r \in Sides :
              (argument = l \o << ">", "=" >> \o r /\ LeftExceedsRight(l, r)) => returned_bool
        /\ EqualsBeforeGreater(argument) => ~returned_bool

\* Openers minus closers among s[i..j].
AnyBalance(s, i, j) ==
    Cardinality({ k \in i..j : is_open_bracket(s[k]) })
        - Cardinality({ k \in i..j : is_close_bracket(s[k]) })

\* The closer at position j closes the opener at position i.
Closes(s, i, j) ==
    /\ is_open_bracket(s[i])
    /\ AnyBalance(s, i, j) = 0
    /\ \A k \in i..(j - 1) : AnyBalance(s, i, k) > 0

\* Every closer closes an opener of its own kind and no opener is left open.
WellNested(s) ==
    /\ AnyBalance(s, 1, Len(s)) = 0
    /\ \A j \in 1..Len(s) :
          is_close_bracket(s[j]) =>
              \E i \in 1..(j - 1) : Closes(s, i, j) /\ get_matching_bracket(s[i]) = s[j]

\* The first comparison symbol outside all brackets.
FirstComparison(s) ==
    CHOOSE p \in TopLevelComparisons(s) : \A q \in TopLevelComparisons(s) : p <= q

\* The values of the sides of s around position p stand in the relation s[p].
RelationHolds(s, p) ==
    /\ evaluate_expression(Slice(s, 1, p - 1)).some
    /\ evaluate_expression(Slice(s, p + 1, Len(s))).some
    /\ s[p] = "=" => evaluate_expression(Slice(s, 1, p - 1)).v
                         = evaluate_expression(Slice(s, p + 1, Len(s))).v
    /\ s[p] = ">" => evaluate_expression(Slice(s, 1, p - 1)).v
                         > evaluate_expression(Slice(s, p + 1, Len(s))).v

\* C18: is_valid_equation is true only of a string whose brackets are
\* well nested, that has a comparison symbol outside all brackets, the first
\* of them neither at the first nor at the last position, both sides of it
\* evaluating to integers, equal under "=" and the left strictly greater
\* under ">".
ValidOnlyIfSidesCompare ==
    (Validated /\ returned_bool) =>
        /\ WellNested(argument)
        /\ TopLevelComparisons(argument) # {}
        /\ FirstComparison(argument) \in 2..(Len(argument) - 1)
        /\ RelationHolds(argument, FirstComparison(argument))

\* is_valid_equation has accepted "3!>[7/2]".
ComparisonValidated ==
    /\ Validated
    /\ returned_bool
    /\ argument = << "3", "!", ">", "[", "7", "/", "2", "]" >>

\* The numbers the operands of one operation stand for.
OperandValues == (0..MaxNumeral) \cup { 46340, 46341, I32Max }

\* a^b by b multiplications, None once the product leaves the i32 range.
RECURSIVE PowerWithin(_, _, _)
PowerWithin(a, b, acc) ==
    IF b = 0 THEN Some(acc)
    ELSE IF acc > I32Max \div a THEN None
    ELSE PowerWithin(a, b - 1, acc * a)

\* What a op b is over the integers when that is an integer of the i32
\* range, None otherwise.
ExactResult(op, a, b) ==
    IF op = "+" THEN (IF a > I32Max - b THEN None ELSE Some(a + b))
    ELSE IF op = "-" THEN Some(a - b)
    ELSE IF op = "*" THEN (IF a # 0 /\ b > I32Max \div a THEN None ELSE Some(a * b))
    ELSE IF op = "/" THEN (IF b = 0 THEN None
                           ELSE IF a % b # 0 THEN None ELSE Some(a \div b))
    ELSE IF op = "%" THEN (IF b = 0 THEN None ELSE Some(a % b))
    ELSE IF b = 0 THEN Some(1)
    ELSE IF a <= 1 THEN Some(a)
    ELSE PowerWithin(a, b, 1)

\* What the expressions at the ends of the i32 range are worth.
ExtremeValue(s) ==
    IF s \in { << "-" >> \o WideNumeral,
               << "0", "-" >> \o NatToStr(I32Max) \o << "-", "1" >>,
               << "-" >> \o NatToStr(I32Max) \o << "-", "1" >>,
               << "-", "(" >> \o NatToStr(I32Max) \o << "+", "1", ")" >>,
               << "(", "0", "-", "2", ")", "^", "3", "1" >>,
               << "0", "-", "6", "5", "5", "3", "6", "*", "3", "2", "7", "6", "8" >> }
    THEN Some((0 - I32Max) - 1)
    ELSE IF s = << "2", "^", "3", "1", "-", "1" >> THEN Some(I32Max)
    ELSE IF s = WideNumeral \o << "^", "0" >> THEN Some(1)
    ELSE IF s = NatToStr(I32Max) \o << "+", "0" >> THEN Some(I32Max)
    ELSE None

AllSymbols ==
    { "0", "1", "2", "3", "4", "5", "6", "7", "8", "9", "+", "-", "*", "/", "%",
      "^", "!", "A", "(", ")", "[", "]", "=", ">" }

\* One frame per position, the terminal frame included, each with a list of
\* distinct symbols still to try.
BoundedRecursion ==
    /\ Len(stack) <= length + 1
    /\ \A i \in 1..Len(stack) :
          /\ stack[i].index = i - 1
          /\ Len(stack[i].order) <= Cardinality(AllSymbols)
          /\ i < Len(stack) => stack[i].calling

\* search has returned: no call of recursive_search is left.
ReturnedAfterTraversal == pc = "done" => stack = << >>

\* A running query always has a step to take: the innermost call is at the
\* terminal position or is not waiting for a call.
NeverStuck ==
    pc = "searching" =>
        /\ stack # << >>
        /\ Top.index <= length
        /\ Top.index = length \/ ~Top.calling

\* How far a query is from its return: the stage of search, then for every
\* position what its frame has still to do (nothing when there is no frame).
StageRank == IF pc = "idle" THEN 2 ELSE IF pc = "searching" THEN 1 ELSE 0

FrameRank(i) ==
    IF i > Len(stack) THEN 0
    ELSE 2 * Len(stack[i].order) + (IF stack[i].calling THEN 1 ELSE 2)

Rank == << StageRank >> \o [i \in 1..(length + 1) |-> FrameRank(i)]

\* a comes before b in the lexicographic order.
LexLess(a, b) ==
    /\ Len(a) = Len(b)
    /\ \E k \in 1..Len(a) :
          /\ a[k] < b[k]
          /\ \A j \in 1..(k - 1) : a[j] = b[j]

\* C20: a search query terminates: every step brings it nearer to its return
\* in a well-founded order and a running query always has a step to take;
\* the recursion is never deeper than length frames plus the terminal frame,
\* each frame has finitely many symbols to try, and the results are returned
\* only once every call has returned.
QueryTerminates ==
    /\ [](BoundedRecursion /\ ReturnedAfterTraversal /\ NeverStuck)
    /\ [][LexLess(Rank', Rank)]_vars

\* search has returned results after a traversal that reached the terminal
\* frame more than once.
TraversalFinished ==
    /\ pc = "done"
    /\ stack = << >>
    /\ searched_count >= 2
    /\ results # << >>

(***************************************************************************)
(* Properties of the compiled knowledge                                    *)
(***************************************************************************)

\* preprocess_constraints has returned Ok for the query and gk holds what it
\* returned.
CompiledOk == pc \in { "searching", "done", "panicked" } /\ error[1] = "none"

PinnedPositions(g) == { i \in 1..Len(g.fixed_chars) : g.fixed_chars[i] # "none" }

KnowledgeConsistent(g) ==
    /\ \A i \in PinnedPositions(g) :
          /\ g.fixed_chars[i] \notin g.cannot_be_at[i]
          /\ g.fixed_chars[i] \notin g.globally_forbidden
          /\ g.fixed_chars[i] \in DOMAIN g.must_appear_min_count
          /\ g.must_appear_min_count[g.fixed_chars[i]] >= 1
    /\ \A ch \in DOMAIN g.must_appear_exact_count :
          g.must_appear_exact_count[ch] >= Get(g.must_appear_min_count, ch, 0)
    /\ \A ch \in g.globally_forbidden :
          /\ Get(g.must_appear_min_count, ch, 0) = 0
          /\ Get(g.must_appear_exact_count, ch, 0) = 0

\* C21: the GlobalKnowledge preprocess_constraints returns has no pinned
\* symbol that is forbidden at its position or globally, no exact count below
\* the minimum, no globally forbidden symbol with a positive minimum or exact
\* count, and a minimum of at least 1 for every pinned symbol.
CompiledKnowledgeConsistent == CompiledOk => KnowledgeConsistent(gk)

\* Knowledge has been compiled that pins a symbol, gives some symbol a
\* positive exact count and forbids another globally.
KnowledgeCompiled ==
    /\ CompiledOk
    /\ PinnedPositions(gk) # {}
    /\ \E ch \in DOMAIN gk.must_appear_exact_count : gk.must_appear_exact_count[ch] > 0
    /\ gk.globally_forbidden # {}

\* The symbols that occur in the feedback, the rows that hold symbol ch, and
\* the number of "correct" and "present" tiles of ch in row r.
SymbolsGuessed ==
    UNION { { rows[r][c].char : c \in 1..Len(rows[r]) } : r \in 1..Len(rows) } \ { "" }

RowsHolding(ch) ==
    { r \in 1..Len(rows) : \E c \in 1..Len(rows[r]) : rows[r][c].char = ch }

RowsMarkingEmpty(ch) ==
    { r \in 1..Len(rows) :
        \E c \in 1..Len(rows[r]) : rows[r][c].char = ch /\ rows[r][c].state = "empty" }

Marked(r, ch) ==
    Cardinality({ c \in 1..Len(rows[r]) :
                    rows[r][c].char = ch /\ rows[r][c].state \in { "correct", "present" } })

\* C22: for every symbol of the feedback the compiled minimum is the largest
\* number of "correct" and "present" tiles of it in one row; the symbol has
\* an exact count exactly when some row marks it "empty", and that count is
\* the number of "correct" and "present" tiles of every such row (rows that
\* disagree make the compilation fail); the symbol is globally forbidden
\* exactly when its exact count is 0 and its minimum is 0.
CountsDerived ==
    (CompiledOk /\ pc # "searching") =>
        \A ch \in SymbolsGuessed :
            /\ ch \in DOMAIN gk.must_appear_min_count
            /\ \A r \in RowsHolding(ch) : gk.must_appear_min_count[ch] >= Marked(r, ch)
            /\ \E r \in RowsHolding(ch) : gk.must_appear_min_count[ch] = Marked(r, ch)
            /\ ch \in DOMAIN gk.must_appear_exact_count <=> RowsMarkingEmpty(ch) # {}
            /\ \A r \in RowsMarkingEmpty(ch) : gk.must_appear_exact_count[ch] = Marked(r, ch)
            /\ ch \in gk.globally_forbidden <=>
                   /\ ch \in DOMAIN gk.must_appear_exact_count
                   /\ gk.must_appear_exact_count[ch] = 0
                   /\ gk.must_appear_min_count[ch] = 0

\* The query has ended whose knowledge was compiled from two rows that hold
\* different numbers of "correct" and "present" tiles of one symbol, and from
\* a row that marks a symbol "empty".
CountsCompiled ==
    /\ CompiledOk
    /\ pc = "done"
    /\ \E ch \in SymbolsGuessed :
          \E r1 \in RowsHolding(ch) : \E r2 \in RowsHolding(ch) :
              r1 < r2 /\ Marked(r1, ch) > Marked(r2, ch) /\ Marked(r2, ch) > 0
    /\ \E ch \in SymbolsGuessed : RowsMarkingEmpty(ch) # {}

(***************************************************************************)
(* Properties of the traversal                                             *)
(***************************************************************************)

\* The number of positions among the first n of the candidate that hold ch.
CountInPrefix(n, ch) == Cardinality({ i \in 1..n : current_expression[i] = ch })

\* C23: while recursive_search runs, current_expression_counts holds for
\* every symbol the number of its occurrences in the candidate before the
\* index of the innermost call, and no entry of value 0; when search has
\* returned the map is empty.
RunningCountsExact ==
    /\ pc = "searching" =>
          /\ \A ch \in DOMAIN current_expression_counts :
                /\ current_expression_counts[ch] > 0
                /\ current_expression_counts[ch] = CountInPrefix(Top.index, ch)
          /\ \A i \in 1..Top.index :
                current_expression[i] \in DOMAIN current_expression_counts
    /\ pc = "done" => current_expression_counts = EmptyMap

\* recursive_search has been entered again after a backtrack, below a prefix
\* that holds one symbol twice.
EnteredAfterBacktrack ==
    /\ pc = "searching"
    /\ searched_count >= 1
    /\ ~Top.calling
    /\ Top.index >= 2
    /\ \E ch \in DOMAIN current_expression_counts : current_expression_counts[ch] >= 2

\* The candidate buffer with every position from index on (0-based) set to
\* the sentinel.
ClearedFrom(index) ==
    [i \in 1..Len(current_expression) |->
        IF i > index THEN NUL ELSE current_expression[i]]

\* C24: full undo on backtrack: while recursive_search runs, every position
\* of the candidate from the index of the innermost call on holds the
\* sentinel (the symbol a branch placed is removed when the branch returns).
SentinelFromIndexOn ==
    pc = "searching" =>
        \A i \in (Top.index + 1)..Len(current_expression) : current_expression[i] = NUL

\* The positions below the index of the innermost call hold what the calls
\* that are waiting have placed.
PrefixFromCallers ==
    \A j \in 1..(Len(stack) - 1) : current_expression[j] = Head(stack[j].order)

\* What the innermost call reads of the candidate lies below its index: the
\* order it tries and the verdict on the next symbol are those it would get
\* from a buffer that holds the sentinel from its index on.
ReadsBelowIndexOnly ==
    (~Top.calling /\ Top.index < length) =>
        /\ get_optimized_char_order(Top.index, current_expression, Top.main_op_so_far,
                                    Top.floor_context, gk)
               = get_optimized_char_order(Top.index, ClearedFrom(Top.index),
                                          Top.main_op_so_far, Top.floor_context, gk)
        /\ Top.order # << >> =>
              can_place_char(Head(Top.order), Top.index, current_expression,
                             Top.main_op_so_far, current_expression_counts,
                             Top.floor_context, gk)
                  = can_place_char(Head(Top.order), Top.index, ClearedFrom(Top.index),
                                   Top.main_op_so_far, current_expression_counts,
                                   Top.floor_context, gk)

\* A call returns to its caller: the count of the caller's symbol goes down
\* by one, every other count and the buffer stay.
CountTakenBack ==
    (pc = "searching" /\ Len(stack') < Len(stack) /\ stack' # << >>) =>
        /\ current_expression' = current_expression
        /\ \A ch \in DOMAIN current_expression_counts :
              Get(current_expression_counts', ch, 0)
                  = current_expression_counts[ch]
                        - (IF ch = current_expression[Len(stack')] THEN 1 ELSE 0)

\* What the code does undo: when recursive_search returns from the descent
\* below position i the running count of the symbol placed there is
\* decremented; the symbol stays in the buffer, and no position from the
\* current index on is read before it is written.
UndoOfCounts ==
    /\ [](pc = "searching" => (PrefixFromCallers /\ ReadsBelowIndexOnly))
    /\ [][CountTakenBack]_vars

(***************************************************************************)
(* Properties of the prefixes the search builds                            *)
(***************************************************************************)

\* The positions of the prefix the search has built.
Prefix == 1..Top.index

\* C25: in every prefix the search builds, a comparison symbol that follows
\* an earlier comparison symbol is an "=" directly after a ">", and no
\* comparison symbol stands at the first or at the last position.
SecondComparisonOnlyEqualsAfterGreater ==
    pc = "searching" =>
        \A q \in Prefix :
            is_main_operator(current_expression[q]) =>
                /\ q # 1
                /\ q # length
                /\ (\E p \in 1..(q - 1) : is_main_operator(current_expression[p])) =>
                      /\ current_expression[q] = "="
                      /\ current_expression[q - 1] = ">"

\* The symbol at position q of s, which stands after an "=", is a digit or a
\* "-" directly after the "=" and not at the last position.
LegalRightOfEquals(s, q) ==
    \/ is_digit(s[q])
    \/ s[q] = "-" /\ s[q - 1] = "=" /\ q # length

\* C26: in every prefix the search builds and in every returned result,
\* every symbol after an "=" is a digit, except for a "-" directly after the
\* "=" that is not the last symbol.
RightOfEqualsIsNumeral ==
    /\ pc = "searching" =>
          \A q \in Prefix :
              (\E p \in 1..(q - 1) : current_expression[p] = "=")
                  => LegalRightOfEquals(current_expression, q)
    /\ pc = "done" =>
          \A k \in 1..Len(results) : \A q \in 1..length :
              (\E p \in 1..(q - 1) : results[k][p] = "=")
                  => LegalRightOfEquals(results[k], q)

\* The number of "[" minus the number of "]" among the first n symbols of the
\* candidate, and the position of the last "[" among them (0 when none).
SquareDepth(n) ==
    Cardinality({ i \in 1..n : current_expression[i] = "[" })
        - Cardinality({ i \in 1..n : current_expression[i] = "]" })

LastSquare(n) ==
    IF \E i \in 1..n : current_expression[i] = "["
    THEN CHOOSE i \in 1..n :
             /\ current_expression[i] = "["
             /\ \A k \in (i + 1)..n : current_expression[k] # "["
    ELSE 0

\* The floor context a call at position n (0-based) is entered with tells
\* what the n symbols before it hold.
ContextTellsPrefix(context, n) ==
    /\ SquareDepth(n) \in { 0, 1 }
    /\ context.in_floor <=> SquareDepth(n) = 1
    /\ context.has_slash_in_current_floor <=>
          /\ SquareDepth(n) = 1
          /\ \E i \in (LastSquare(n) + 1)..n : current_expression[i] = "/"

\* C27: every call of recursive_search is entered with in_floor true exactly
\* when the prefix holds a "[" not yet closed, with
\* has_slash_in_current_floor true exactly when moreover a "/" stands after
\* that "[", and the square brackets of the prefix are never nested.
FloorContextTellsPrefix ==
    pc = "searching" =>
        \A j \in 1..Len(stack) : ContextTellsPrefix(stack[j].floor_context, j - 1)

\* A call has been entered behind a pinned "[" and a pinned "/", and a call
\* behind the pinned "]" that closes them.
EnteredInsidePinnedFloor ==
    /\ pc = "searching"
    /\ Len(stack) >= 6
    /\ gk.fixed_chars[1] = "[" /\ gk.fixed_chars[3] = "/" /\ gk.fixed_chars[5] = "]"
    /\ stack[4].floor_context = [in_floor |-> TRUE, has_slash_in_current_floor |-> TRUE]
    /\ stack[6].floor_context = NoFloor

\* Position q of the prefix lies inside a floor span not closed before it.
InsideFloor(q) == SquareDepth(q - 1) = 1

\* The symbol at position q, placed inside a floor span, keeps the shape
\* "[" digits "/" digits "]".
KeepsFloorShape(q) ==
    \/ is_digit(current_expression[q])
    \/ /\ current_expression[q] = "/"
       /\ is_digit(current_expression[q - 1])
       /\ \A i \in (LastSquare(q - 1) + 1)..(q - 1) : current_expression[i] # "/"
    \/ /\ current_expression[q] = "]"
       /\ is_digit(current_expression[q - 1])
       /\ \E i \in (LastSquare(q - 1) + 1)..(q - 1) : current_expression[i] = "/"

\* C28: in every prefix the search builds, the symbols after an unclosed "["
\* are digits and at most one "/", which follows a digit, and the "]" follows
\* a digit and the "/"; no "[" stands at one of the last 3 positions.
FloorSpansWellShaped ==
    pc = "searching" =>
        \A q \in Prefix :
            /\ InsideFloor(q) => KeepsFloorShape(q)
            /\ current_expression[q] = "[" => q <= length - 3

(***************************************************************************)
(* The budget of the floor-bracket loop                                    *)
(***************************************************************************)

\* Some "[" of s has no "]" that closes it.
HasOpenSquare(s) ==
    \E i \in 1..Len(s) :
        /\ s[i] = "["
        /\ \A j \in i..Len(s) : SquareBalance(s, i, j) # 0

\* C29: evaluate_expression reduces at most 10 floor spans: a chain of n
\* well-formed spans "[7]" joined by "+" evaluates to 7n for n <= 10 and to
\* None for n = 11; a "[" left open gives None; every evaluation ends.
FloorBudget ==
    (Evaluated /\ Contains(argument, "[")) =>
        /\ \A n \in 1..(max_bracket_iterations + 1) :
              argument = SpanChain(n) =>
                  returned_value = IF n <= max_bracket_iterations THEN Some(7 * n) ELSE None
        /\ HasOpenSquare(argument) => returned_value = None

\* evaluate_expression has reduced the ten spans of a chain, and has given
\* up on a chain of eleven.
ChainsEvaluated ==
    /\ Evaluated
    /\ \/ argument = SpanChain(10) /\ returned_value = Some(70)
       \/ argument = SpanChain(11) /\ returned_value = None

====
